---- MODULE Spec2Model ----
(***************************************************************************)
(* A model of the versioned, trie-backed zone database of                  *)
(* lib/dns/qp-zonedb.c: the loader, the version life cycle, the header     *)
(* chains with their MVCC stacks, and the query engine zone_find with its  *)
(* helpers (check_zonecut, find_wildcard, wildcard_blocked, step,          *)
(* activeempty, find_closest_nsec) and zone_findrdataset.                  *)
(*                                                                         *)
(* Names are written relative to the zone origin, as sequences of labels   *)
(* from the origin downwards: << >> is the origin, <<1>> a child of the    *)
(* origin, <<1, 0>> the wildcard child of <<1>>.  A label is a natural     *)
(* number; label 0 is the wildcard label "*", which sorts before every     *)
(* other label, so that DNS canonical order is the lexicographic order of  *)
(* these sequences with a name sorting before its subdomains.              *)
(***************************************************************************)
EXTENDS Integers, Sequences, FiniteSets, TLC

VARIABLES
    workload,        \* inputs of the run: stub flag, master file, updates, queries
    attributes,      \* qpdb->attributes, a subset of {"LOADING", "LOADED"}
    tree,            \* main trie: owner name -> node
    nsec,            \* auxiliary NSEC trie: the set of names it holds
    nsec3,           \* NSEC3 trie: owner name -> node
    current_version, \* qpdb->current_version
    future_version,  \* qpdb->future_version: the open writer version, or NoVersion
    next_serial,     \* qpdb->next_serial
    open_version,    \* the version a reader thread holds open, or NoVersion
    heaps,           \* qpdb->heaps: bucket -> resign heap
    glue_list,       \* header->glue_list of the NS header of each delegation
    glue_stack,      \* version->glue_stack: serial -> the headers pushed on it
    threads,         \* the addglue call each thread is in
    installs,        \* compare-and-swaps that installed the present glue_list
    rendered,        \* the first additional section rendered per header and version
    observed,        \* the reader's first query with its open version, and its answer
    sigscan,         \* a getsigningtime call in progress beside other calls
    lastcall         \* the last call made on the database: arguments and result

gluevars == <<glue_list, glue_stack, threads, installs, rendered>>

vars == <<workload, attributes, tree, nsec, nsec3, current_version,
          future_version, next_serial, open_version, heaps, gluevars,
          observed, sigscan, lastcall>>

(***************************************************************************)
(* Names, relative to the origin: the dns_name functions the core uses.    *)
(***************************************************************************)
WILD == 0

origin == << >>

dns_name_countlabels(name) == Len(name)

\* dns_name_issubdomain(a, b): a is b or lies beneath b.
dns_name_issubdomain(a, b) ==
    /\ Len(b) <= Len(a)
    /\ SubSeq(a, 1, Len(b)) = b

\* A test for wildcard owners that never finds one.
dns_name_iswildcard_never(name) == FALSE

\* dns_name_iswildcard: the leftmost label is "*".
dns_name_iswildcard(name) == Len(name) > 0 /\ name[Len(name)] = WILD

\* dns_name_getlabelsequence(name, 1, n - 1): the name without its leftmost label.
StripLeft(name) == SubSeq(name, 1, Len(name) - 1)

\* dns_name_concatenate(dns_wildcardname, name): "*.<name>".
WildcardOf(name) == Append(name, WILD)

\* DNS canonical order: a name sorts before its subdomains, siblings by label.
RECURSIVE NameLess(_, _)
NameLess(a, b) ==
    IF Len(a) = 0 THEN Len(b) > 0
    ELSE IF Len(b) = 0 THEN FALSE
    ELSE IF a[1] # b[1] THEN a[1] < b[1]
    ELSE NameLess(Tail(a), Tail(b))

(***************************************************************************)
(* Type pairs and slab headers.                                            *)
(***************************************************************************)
DNS_TYPEPAIR_VALUE(type, covers) == <<type, covers>>

NoCovers == "0"

Plain(type) == DNS_TYPEPAIR_VALUE(type, NoCovers)

DNS_SIGTYPE(type) == DNS_TYPEPAIR_VALUE("RRSIG", type)

\* dns_rdatatype_atparent: the types that live on the parent side of a cut.
dns_rdatatype_atparent(type) == type = "DS"

\* A slab header: resign and resign_lsb are its signing time, heap_index its
\* position in the resign heap of its node's bucket (0: in no heap), link
\* the serial of the version whose resigned_list it is linked on (0: on
\* none).
NoHeader ==
    [type |-> Plain("NONE"), serial |-> 0, attributes |-> {}, rd |-> {},
     resign |-> 0, resign_lsb |-> 0, heap_index |-> 0, link |-> 0]

NewHeader(type, serial, rd) ==
    [type |-> type, serial |-> serial, attributes |-> {}, rd |-> rd,
     resign |-> 0, resign_lsb |-> 0, heap_index |-> 0, link |-> 0]

ISC_LINK_LINKED(header) == header.link # 0

EXISTS(header) == "NONEXISTENT" \notin header.attributes

RESIGN(header) == "RESIGN" \in header.attributes

NONEXISTENT(header) == "NONEXISTENT" \in header.attributes

IGNORE(header) == "IGNORE" \in header.attributes

ANCIENT(header) == "ANCIENT" \in header.attributes

(***************************************************************************)
(* A node.  data is the header chain: the sequence of the per-type stacks  *)
(* in next order, each stack the sequence of the headers of one type pair  *)
(* in down order (newest first).                                           *)
(***************************************************************************)
dns_qpdata_create ==
    [data |-> << >>, wild |-> FALSE, find_callback |-> FALSE, nsec |-> "NORMAL"]

\* No node, and no name: an unset node pointer, an exhausted iterator.
NoNode == <<-1>>

NoParams == "none"

NoVersion ==
    [serial |-> 0, secure |-> FALSE, havensec3 |-> FALSE, params |-> NoParams,
     writer |-> FALSE]

IS_STUB == workload.stub

(***************************************************************************)
(* The trie, as the core uses it: dns_qp_getname, dns_qp_insert,           *)
(* dns_qp_lookup with its chain and iterator, dns_qpiter_prev/next.        *)
(* names is the set of names the trie holds.                               *)
(***************************************************************************)
Greatest(S) == CHOOSE n \in S : \A m \in S : m = n \/ NameLess(m, n)

Least(S) == CHOOSE n \in S : \A m \in S : m = n \/ NameLess(n, m)

\* dns_qpiter_prev: the name before pos, or NoNode (ISC_R_NOMORE).
dns_qpiter_prev(names, pos) ==
    LET before == {n \in names : NameLess(n, pos)}
    IN  IF pos = NoNode \/ before = {} THEN NoNode ELSE Greatest(before)

\* dns_qpiter_next: the name after pos, or NoNode (ISC_R_NOMORE).
dns_qpiter_next(names, pos) ==
    LET after == {n \in names : NameLess(pos, n)}
    IN  IF pos = NoNode \/ after = {} THEN NoNode ELSE Least(after)

\* The chain of a lookup: the names of the trie at or above name, topmost first.
RECURSIVE ChainFrom(_, _, _)
ChainFrom(names, name, k) ==
    IF k > Len(name) THEN << >>
    ELSE (IF SubSeq(name, 1, k) \in names THEN <<SubSeq(name, 1, k)>> ELSE << >>)
         \o ChainFrom(names, name, k + 1)

\* dns_qp_lookup(qp, name, foundname, iter, chain, node).  The iterator ends at
\* name when it is found and at its predecessor otherwise; foundname and node
\* are the deepest name of the chain.
dns_qp_lookup(names, name) ==
    LET chain == ChainFrom(names, name, 0)
        last  == IF chain = << >> THEN NoNode ELSE chain[Len(chain)]
    IN  [result    |-> IF name \in names THEN "SUCCESS"
                       ELSE IF chain # << >> THEN "PARTIALMATCH"
                       ELSE "NOTFOUND",
         chain     |-> chain,
         iter      |-> IF name \in names THEN name
                       ELSE dns_qpiter_prev(names, name),
         foundname |-> last,
         node      |-> last]

\* dns_qp_insert of a node under name (or the replacement of its fields).
TreePut(t, name, node) ==
    [n \in (DOMAIN t) \cup {name} |-> IF n = name THEN node ELSE t[n]]

\* dns_qp_getname, creating the node when it is absent.
GetOrCreate(t, name) == IF name \in DOMAIN t THEN t[name] ELSE dns_qpdata_create

(***************************************************************************)
(* Header chains.                                                          *)
(***************************************************************************)
\* The walk down a stack without the test of the serial.
RECURSIVE ActiveFromAnySerial(_, _, _)
ActiveFromAnySerial(stack, i, serial) ==
    IF i > Len(stack) THEN NoHeader
    ELSE IF ~IGNORE(stack[i])
         THEN (IF NONEXISTENT(stack[i]) THEN NoHeader ELSE stack[i])
         ELSE ActiveFromAnySerial(stack, i + 1, serial)

\* The walk down a stack without the test of IGNORE.
RECURSIVE ActiveFromIgnored(_, _, _)
ActiveFromIgnored(stack, i, serial) ==
    IF i > Len(stack) THEN NoHeader
    ELSE IF stack[i].serial <= serial
         THEN (IF NONEXISTENT(stack[i]) THEN NoHeader ELSE stack[i])
         ELSE ActiveFromIgnored(stack, i + 1, serial)

\* The walk down a stack that every reader does: the first header with
\* serial <= the search serial and IGNORE clear, or NoHeader when there is
\* none or when that header is a tombstone.
RECURSIVE ActiveFrom(_, _, _)
ActiveFrom(stack, i, serial) ==
    IF i > Len(stack) THEN NoHeader
    ELSE IF stack[i].serial <= serial /\ ~IGNORE(stack[i])
         THEN (IF NONEXISTENT(stack[i]) THEN NoHeader ELSE stack[i])
         ELSE ActiveFrom(stack, i + 1, serial)

ActiveHeader(stack, serial) == ActiveFrom(stack, 1, serial)

\* The position on the next chain of the stack of a type pair, or 0.
StackIndex(data, type) ==
    IF \E i \in 1..Len(data) : data[i][1].type = type
    THEN CHOOSE i \in 1..Len(data) : data[i][1].type = type
    ELSE 0

\* dns__qpdb_add: link newheader into the node's chain.  A type new to the
\* node is linked at the head of the next chain.  Otherwise the new header
\* is put at the head of the stack of its type and the old head becomes
\* its down.  In merge mode (the loader) the rdata of an existing top
\* header is combined into the new one, the additions making one set: the
\* new header takes the place of a top header of its own serial; nothing
\* changes (UNCHANGED) when the addition adds nothing.
dns__qpdb_add(node, newheader, merge) ==
    LET i     == StackIndex(node.data, newheader.type)
        top   == node.data[i][1]
        old   == IF ~IGNORE(top) /\ EXISTS(top) THEN top.rd ELSE {}
        hdr   == IF merge /\ EXISTS(newheader)
                 THEN [newheader EXCEPT !.rd = old \cup newheader.rd]
                 ELSE newheader
        stack == IF merge /\ top.serial = newheader.serial
                 THEN <<hdr>> \o Tail(node.data[i])
                 ELSE <<hdr>> \o node.data[i]
    IN  IF i = 0 /\ NONEXISTENT(newheader)
        THEN [node |-> node, result |-> "UNCHANGED"]
        ELSE IF i = 0
        THEN [node   |-> [node EXCEPT !.data = <<<<newheader>>>> \o node.data],
              result |-> "SUCCESS"]
        ELSE IF EXISTS(newheader) /\ ~IGNORE(top) /\ EXISTS(top) /\ hdr.rd = top.rd
        THEN [node |-> node, result |-> "UNCHANGED"]
        ELSE IF NONEXISTENT(newheader) /\ (IGNORE(top) \/ NONEXISTENT(top))
        THEN [node |-> node, result |-> "UNCHANGED"]
        ELSE [node   |-> [node EXCEPT !.data[i] = stack],
              result |-> "SUCCESS"]

(***************************************************************************)
(* Resign heaps: one heap per lock bucket, an array from index 1 on of     *)
(* references to headers, the soonest to resign first.  A reference names  *)
(* the node and the type pair of the header, the top one of its stack.     *)
(***************************************************************************)
node_lock_count == 3

\* node->hashval, a hash of the name.
RECURSIVE hashval(_)
hashval(name) == IF name = << >> THEN 0 ELSE name[1] + hashval(Tail(name))

\* node->locknum = node->hashval % qpdb->node_lock_count.
locknum(name) == hashval(name) % node_lock_count

\* The locks a call takes and gives back, in the order of the calls: the
\* tree lock and the bucket locks qpdb->node_locks[0..node_lock_count - 1].
tree_lock == -1

LockEvent(op, lock, type) == [op |-> op, lock |-> lock, type |-> type]

\* TREE_RDLOCK, TREE_UNLOCK, NODE_RDLOCK and NODE_UNLOCK on the scan state
\* st: the lock type variable of the caller follows the lock.
TREE_RDLOCK(st) ==
    [st EXCEPT !.tlocktype = "read",
               !.events = Append(@, LockEvent("TREE_RDLOCK", tree_lock, "read"))]

TREE_UNLOCK(st) ==
    [st EXCEPT !.tlocktype = "none",
               !.events = Append(@, LockEvent("TREE_UNLOCK", tree_lock,
                                              st.tlocktype))]

NODE_RDLOCK(st, i) ==
    [st EXCEPT !.nlocktype = "read",
               !.events = Append(@, LockEvent("NODE_RDLOCK", i, "read"))]

NODE_UNLOCK(st, i) ==
    [st EXCEPT !.nlocktype = "none",
               !.events = Append(@, LockEvent("NODE_UNLOCK", i, st.nlocktype))]

HeaderRef(name, type) == [name |-> name, type |-> type]

\* No header: a NULL pointer to one.
NoRef == HeaderRef(NoNode, Plain("NONE"))

\* The header a reference points to, and the tree with that header replaced.
HeaderOf(t, ref) == t[ref.name].data[StackIndex(t[ref.name].data, ref.type)][1]

SetHeader(t, ref, header) ==
    [t EXCEPT ![ref.name].data[StackIndex(t[ref.name].data, ref.type)][1]
                  = header]

\* The clock, and the width of a time of day on the wire (2^32 in the code).
Now == 6

TimeModulus == 8

\* dns_time64_from32: the time within half a modulus of now that is equal to
\* value modulo the modulus.
dns_time64_from32(value) ==
    CHOOSE t \in (Now - TimeModulus \div 2 + 1)..(Now + TimeModulus \div 2) :
        t % TimeModulus = value % TimeModulus

\* qpdb->sooner: h1 is to be resigned before h2.
sooner(h1, h2) ==
    \/ h1.resign < h2.resign
    \/ h1.resign = h2.resign /\ h1.resign_lsb < h2.resign_lsb

Swap(array, i, j) ==
    [array EXCEPT ![i] = array[j], ![j] = array[i]]

\* isc_heap: float_up and sink_down of the element at index i.
RECURSIVE float_up(_, _, _)
float_up(t, array, i) ==
    IF i > 1 /\ sooner(HeaderOf(t, array[i]), HeaderOf(t, array[i \div 2]))
    THEN float_up(t, Swap(array, i, i \div 2), i \div 2)
    ELSE array

RECURSIVE sink_down(_, _, _)
sink_down(t, array, i) ==
    IF i > Len(array) \div 2 THEN array
    ELSE LET left == 2 * i
             j    == IF /\ left < Len(array)
                        /\ sooner(HeaderOf(t, array[left + 1]),
                                  HeaderOf(t, array[left]))
                     THEN left + 1 ELSE left
         IN  IF sooner(HeaderOf(t, array[i]), HeaderOf(t, array[j]))
             THEN array
             ELSE sink_down(t, Swap(array, i, j), j)

isc_heap_insert(t, array, ref) ==
    float_up(t, Append(array, ref), Len(array) + 1)

isc_heap_delete(t, array, idx) ==
    LET last  == array[Len(array)]
        short == SubSeq(array, 1, Len(array) - 1)
        less  == sooner(HeaderOf(t, last), HeaderOf(t, array[idx]))
        moved == [short EXCEPT ![idx] = last]
    IN  IF idx = Len(array) THEN short
        ELSE IF less THEN float_up(t, moved, idx)
        ELSE sink_down(t, moved, idx)

isc_heap_increased(t, array, idx) == float_up(t, array, idx)

isc_heap_decreased(t, array, idx) == sink_down(t, array, idx)

\* isc_heap_element(heap, 1): the first element, or NoRef for NULL.
isc_heap_element(array) == IF array = << >> THEN NoRef ELSE array[1]

\* The index callback of the heaps: every header in a heap knows its index.
set_index(t, hs) ==
    [n \in DOMAIN t |->
        [t[n] EXCEPT !.data =
            [i \in 1..Len(t[n].data) |->
                [j \in 1..Len(t[n].data[i]) |->
                    LET header == t[n].data[i][j]
                        ref    == HeaderRef(n, header.type)
                        array  == hs[locknum(n)]
                    IN  IF j = 1 /\ \E k \in 1..Len(array) : array[k] = ref
                        THEN [header EXCEPT !.heap_index =
                                 CHOOSE k \in 1..Len(array) : array[k] = ref]
                        ELSE header]]]]

\* dns__qpzone_resigninsert(idx, newheader).
dns__qpzone_resigninsert(t, hs, ref) ==
    LET hs1 == [hs EXCEPT ![locknum(ref.name)] =
                   isc_heap_insert(t, @, ref)]
    IN  [tree |-> set_index(t, hs1), heaps |-> hs1]

\* dns__qpzone_resigndelete(version, header): take the header out of its
\* heap and, for a version, link it on the version's resigned_list.
dns__qpzone_resigndelete(t, hs, version, ref) ==
    LET header == HeaderOf(t, ref)
        hs1    == [hs EXCEPT ![locknum(ref.name)] =
                      isc_heap_delete(t, @, header.heap_index)]
        out    == [header EXCEPT
                      !.heap_index = 0,
                      !.link = IF version # NoVersion
                               THEN version.serial ELSE @]
    IN  IF header.heap_index # 0
        THEN [tree |-> set_index(SetHeader(t, ref, out), hs1), heaps |-> hs1]
        ELSE [tree |-> t, heaps |-> hs]

(***************************************************************************)
(* The loader.                                                             *)
(***************************************************************************)
\* delegating_type without the test of the origin.
delegating_type_any_node(name, type) ==
    \/ type = Plain("DNAME")
    \/ type = Plain("NS")

\* delegating_type that knows the DNAME alone.
delegating_type_dname_only(name, type) == type = Plain("DNAME")

delegating_type(name, type) ==
    \/ type = Plain("DNAME")
    \/ type = Plain("NS") /\ (name # origin \/ IS_STUB)

\* dns__qpzone_wildcardmagic(name): mark the parent of the wildcard name.
dns__qpzone_wildcardmagic(t, name) ==
    LET foundname == StripLeft(name)
        node      == GetOrCreate(t, foundname)
    IN  TreePut(t, foundname,
                [node EXCEPT !.nsec = "NORMAL", !.find_callback = TRUE,
                             !.wild = TRUE])

\* dns__qpzone_addwildcards(name): for every wildcard label strictly inside
\* name, mark the parent of that wildcard and make sure name has a node.
RECURSIVE AddWildcardsFrom(_, _, _)
AddWildcardsFrom(t, name, j) ==
    IF j >= Len(name) THEN t
    ELSE LET foundname == SubSeq(name, 1, j)
             t1 == dns__qpzone_wildcardmagic(t, foundname)
             t2 == TreePut(t1, name,
                           [GetOrCreate(t1, name) EXCEPT !.nsec = "NORMAL"])
         IN  AddWildcardsFrom(IF dns_name_iswildcard(foundname) THEN t2 ELSE t,
                              name, j + 1)

\* A loader that looks at no label inside the name.
dns__qpzone_addwildcards_none(t, name) == t

dns__qpzone_addwildcards(t, name) == AddWildcardsFrom(t, name, 1)

\* A loadnode that never adds to the auxiliary NSEC tree.
loadnode_nomirror(t, aux, name, hasnsec) ==
    [tree |-> TreePut(t, name, GetOrCreate(t, name)), nsec |-> aux]

\* loadnode(name, hasnsec): the main-tree node of name, mirrored into the
\* auxiliary NSEC tree when the record set being loaded is an NSEC.
loadnode(t, aux, name, hasnsec) ==
    LET fresh == name \notin DOMAIN t
        node  == GetOrCreate(t, name)
        t1    == TreePut(t, name, node)
    IN  IF (~fresh /\ node.nsec = "HAS_NSEC") \/ ~hasnsec
        THEN [tree |-> t1, nsec |-> aux]
        ELSE [tree |-> TreePut(t1, name, [node EXCEPT !.nsec = "HAS_NSEC"]),
              nsec |-> aux \cup {name}]

\* loading_addrdataset(name, rdataset): the loader's add callback, as a
\* function of the tries and heaps: what they are after the call, and its
\* result.  A header created with RESIGN goes into the heap of its bucket.
LoadRecord(rdataset) ==
    LET name    == rdataset.name
        type    == rdataset.type
        isnsec3 == type[1] = "NSEC3" \/ type[2] = "NSEC3"
        t0      == IF isnsec3 THEN tree ELSE dns__qpzone_addwildcards(tree, name)
        t1      == IF dns_name_iswildcard(name)
                   THEN dns__qpzone_wildcardmagic(t0, name) ELSE t0
        ln      == loadnode(t1, nsec, name, type = Plain("NSEC"))
        n3node  == [GetOrCreate(nsec3, name) EXCEPT !.nsec = "NSEC3"]
        node    == IF isnsec3 THEN n3node ELSE ln.tree[name]
        plain   == NewHeader(type, 1, rdataset.rd)
        newheader ==
            IF "RESIGN" \in rdataset.attributes
            THEN [plain EXCEPT
                     !.attributes = {"RESIGN"},
                     !.resign = dns_time64_from32(rdataset.resign) \div 2,
                     !.resign_lsb = rdataset.resign % 2]
            ELSE plain
        added   == dns__qpdb_add(node, newheader, TRUE)
        final   == IF added.result = "SUCCESS" /\ delegating_type(name, type)
                   THEN [added.node EXCEPT !.find_callback = TRUE]
                   ELSE added.node
        result  == IF added.result = "UNCHANGED" THEN "SUCCESS" ELSE added.result
        t2      == TreePut(ln.tree, name, final)
        resign  == /\ added.result = "SUCCESS"
                   /\ RESIGN(newheader)
                   /\ StackIndex(node.data, type) = 0
        ins     == dns__qpzone_resigninsert(t2, heaps, HeaderRef(name, type))
    IN  IF type = Plain("SOA") /\ name # origin
        THEN [tree |-> tree, nsec |-> nsec, nsec3 |-> nsec3, heaps |-> heaps,
              result |-> "NOTZONETOP"]
        ELSE IF dns_name_iswildcard(name) /\ type = Plain("NS")
        THEN [tree |-> t0, nsec |-> nsec, nsec3 |-> nsec3, heaps |-> heaps,
              result |-> "INVALIDNS"]
        ELSE IF dns_name_iswildcard(name) /\ type = Plain("NSEC3")
        THEN [tree |-> t0, nsec |-> nsec, nsec3 |-> nsec3, heaps |-> heaps,
              result |-> "INVALIDNSEC3"]
        ELSE IF isnsec3
        THEN [tree |-> t1, nsec |-> nsec, nsec3 |-> TreePut(nsec3, name, final),
              heaps |-> heaps, result |-> result]
        ELSE IF resign
        THEN [tree |-> ins.tree, nsec |-> ln.nsec, nsec3 |-> nsec3,
              heaps |-> ins.heaps, result |-> result]
        ELSE [tree |-> t2, nsec |-> ln.nsec, nsec3 |-> nsec3, heaps |-> heaps,
              result |-> result]

(***************************************************************************)
(* The query engine.  A search is the qpdb_search_t of one zone_find call. *)
(***************************************************************************)
\* An unsigned int of 32 bits, as its two halves of 16 bits.
UInt32(x) == [hi |-> (x \div 65536) % 65536, lo |-> x % 65536]

NewSearch(version, options, lk) ==
    TREE_RDLOCK(
    [serial            |-> version.serial,
     secure            |-> version.secure,
     havensec3         |-> version.havensec3,
     params            |-> version.params,
     options           |-> options,
     zonecut           |-> NoNode,
     zonecut_header    |-> NoHeader,
     zonecut_sigheader |-> NoHeader,
     zonecut_name      |-> NoNode,
     need_cleanup      |-> FALSE,
     newrefs           |-> << >>,
     walk              |-> << >>,
     examined          |-> << >>,
     copy_name         |-> FALSE,
     wild              |-> FALSE,
     chain             |-> lk.chain,
     chainlen          |-> UInt32(Len(lk.chain)),
     iter              |-> lk.iter,
     close_version     |-> FALSE,
     tlocktype         |-> "none",
     nlocktype         |-> "none",
     events            |-> << >>])

\* A function that takes the read lock of the bucket of a node into a lock
\* type variable of its own and gives it back before it returns.
Locked(search, name) ==
    [search EXCEPT !.events =
        @ \o <<LockEvent("NODE_RDLOCK", locknum(name), "read"),
               LockEvent("NODE_UNLOCK", locknum(name), "read")>>]

\* The same for the nodes names, one after the other.
RECURSIVE LockedAll(_, _)
LockedAll(search, names) ==
    IF names = << >> THEN search
    ELSE LockedAll(Locked(search, Head(names)), Tail(names))

\* The active header of a type pair at a node for a serial, or NoHeader.
ActiveOfType(node, type, serial) ==
    LET i == StackIndex(node.data, type)
    IN  IF i = 0 THEN NoHeader ELSE ActiveHeader(node.data[i], serial)

\* The tree a search goes through: the NSEC3 tree when FORCENSEC3 is set.
SearchTree(search) ==
    IF "FORCENSEC3" \in search.options THEN nsec3 ELSE tree

\* matchparams(header, search): some NSEC3 record of the set was made with
\* the NSEC3 parameters of the search version.
matchparams(header, search) == search.params \in header.rd

\* check_zonecut with DNAME taking precedence over NS in every zone.
check_zonecut_dname_first(name, search) ==
    LET node            == tree[name]
        dname_header    == ActiveOfType(node, Plain("DNAME"), search.serial)
        sigdname_header == ActiveOfType(node, DNS_SIGTYPE("DNAME"), search.serial)
        ns              == ActiveOfType(node, Plain("NS"), search.serial)
        ns_header       == IF name # origin \/ IS_STUB THEN ns ELSE NoHeader
        found           == IF dname_header # NoHeader THEN dname_header
                           ELSE ns_header
        sig             == IF dname_header # NoHeader
                           THEN sigdname_header ELSE NoHeader
        glueok          == "GLUEOK" \in search.options
    IN  IF search.zonecut # NoNode
        THEN [search |-> search, result |-> "CONTINUE"]
        ELSE IF found # NoHeader
        THEN [search |-> [Locked(search, name) EXCEPT
                             !.zonecut = name,
                             !.zonecut_header = found,
                             !.zonecut_sigheader = sig,
                             !.need_cleanup = TRUE,
                             !.newrefs = Append(@, name),
                             !.wild = FALSE,
                             !.zonecut_name = IF glueok THEN name ELSE @,
                             !.copy_name = IF glueok THEN TRUE ELSE @],
              result |-> IF glueok THEN "CONTINUE" ELSE "PARTIALMATCH"]
        ELSE [search |-> [Locked(search, name) EXCEPT
                             !.wild = @ \/ (node.wild /\
                                            "NOWILD" \notin search.options)],
              result |-> "CONTINUE"]

\* A check_zonecut that remembers the zone cut it finds whether or not the
\* search has one already.
check_zonecut_deepest(name, search) ==
    LET node            == tree[name]
        dname_header    == ActiveOfType(node, Plain("DNAME"), search.serial)
        sigdname_header == ActiveOfType(node, DNS_SIGTYPE("DNAME"), search.serial)
        ns              == ActiveOfType(node, Plain("NS"), search.serial)
        ns_header       == IF name # origin \/ IS_STUB THEN ns ELSE NoHeader
        usens           == ~IS_STUB /\ ns_header # NoHeader
        found           == IF usens THEN ns_header
                           ELSE IF dname_header # NoHeader THEN dname_header
                           ELSE ns_header
        sig             == IF ~usens /\ dname_header # NoHeader
                           THEN sigdname_header ELSE NoHeader
        glueok          == "GLUEOK" \in search.options
    IN  IF found # NoHeader
        THEN [search |-> [Locked(search, name) EXCEPT
                             !.zonecut = name,
                             !.zonecut_header = found,
                             !.zonecut_sigheader = sig,
                             !.need_cleanup = TRUE,
                             !.newrefs = Append(@, name),
                             !.wild = FALSE,
                             !.zonecut_name = IF glueok THEN name ELSE @,
                             !.copy_name = IF glueok THEN TRUE ELSE @],
              result |-> IF glueok THEN "CONTINUE" ELSE "PARTIALMATCH"]
        ELSE [search |-> [Locked(search, name) EXCEPT
                             !.wild = @ \/ (node.wild /\
                                            "NOWILD" \notin search.options)],
              result |-> "CONTINUE"]

\* check_zonecut(node, search): remember the topmost zone cut.
check_zonecut(name, search) ==
    LET node            == tree[name]
        dname_header    == ActiveOfType(node, Plain("DNAME"), search.serial)
        sigdname_header == ActiveOfType(node, DNS_SIGTYPE("DNAME"), search.serial)
        ns              == ActiveOfType(node, Plain("NS"), search.serial)
        ns_header       == IF name # origin \/ IS_STUB THEN ns ELSE NoHeader
        usens           == ~IS_STUB /\ ns_header # NoHeader
        found           == IF usens THEN ns_header
                           ELSE IF dname_header # NoHeader THEN dname_header
                           ELSE ns_header
        sig             == IF ~usens /\ dname_header # NoHeader
                           THEN sigdname_header ELSE NoHeader
        glueok          == "GLUEOK" \in search.options
    IN  IF search.zonecut # NoNode
        THEN [search |-> search, result |-> "CONTINUE"]
        ELSE IF found # NoHeader
        THEN [search |-> [Locked(search, name) EXCEPT
                             !.zonecut = name,
                             !.zonecut_header = found,
                             !.zonecut_sigheader = sig,
                             !.need_cleanup = TRUE,
                             !.newrefs = Append(@, name),
                             !.wild = FALSE,
                             !.zonecut_name = IF glueok THEN name ELSE @,
                             !.copy_name = IF glueok THEN TRUE ELSE @],
              result |-> IF glueok THEN "CONTINUE" ELSE "PARTIALMATCH"]
        ELSE [search |-> [Locked(search, name) EXCEPT
                             !.wild = @ \/ (node.wild /\
                                            "NOWILD" \notin search.options)],
              result |-> "CONTINUE"]

\* dns__qpdb_newref(node) by a search: one more reference to the node,
\* remembered in the order taken.
dns__qpdb_newref(search, node) == [search EXCEPT !.newrefs = Append(@, node)]

\* A sequence without the first of its elements that equals x.
RemoveFirst(seq, x) ==
    IF \E i \in 1..Len(seq) : seq[i] = x
    THEN LET i == CHOOSE i \in 1..Len(seq) :
                      seq[i] = x /\ \A j \in 1..(i - 1) : seq[j] # x
         IN  SubSeq(seq, 1, i - 1) \o SubSeq(seq, i + 1, Len(seq))
    ELSE seq

\* The end of zone_find: a zonecut reference that was not handed to the
\* caller is dropped.  What is left are the references the call keeps.
Cleanup(search) ==
    IF search.need_cleanup
    THEN RemoveFirst(search.newrefs, search.zonecut)
    ELSE search.newrefs

\* The cleanup of zone_find: the bucket of a zonecut that was not handed to
\* the caller is locked for the release of its reference.
DropZonecut(search) ==
    IF search.need_cleanup
    THEN NODE_UNLOCK(NODE_RDLOCK(search, locknum(search.zonecut)),
                     locknum(search.zonecut))
    ELSE search

\* The version zone_find attached by itself is closed.
CloseVersion(search) ==
    IF search.close_version
    THEN [search EXCEPT !.events =
             Append(@, LockEvent("closeversion", tree_lock, "none"))]
    ELSE search

\* zone_find from tree_exit on: the tree lock is given back, then the
\* cleanup.
tree_exit(search) == CloseVersion(DropZonecut(TREE_UNLOCK(search)))

\* node_exit: the lock of the bucket of the node found is given back.
node_exit(search, node) == NODE_UNLOCK(search, locknum(node))

\* The answer of a zone_find call.
Answer(result, node, foundname, wildcard, rdataset, sigrdataset, search) ==
    [result      |-> result,
     node        |-> node,
     foundname   |-> foundname,
     wildcard    |-> wildcard,
     rdataset    |-> rdataset,
     sigrdataset |-> sigrdataset,
     zonecut     |-> search.zonecut,
     zonecut_header |-> search.zonecut_header,
     chainlen    |-> search.chainlen,
     taken       |-> search.newrefs,
     newrefs     |-> Cleanup(search),
     walk        |-> search.walk,
     examined    |-> search.examined,
     close_version |-> search.close_version,
     locks       |-> tree_exit(search).events]

\* A setup_delegation that hands the node to the caller and still leaves
\* the reference to it to the cleanup.
setup_delegation_keepcleanup(search, foundname) ==
    Answer(IF search.zonecut_header.type = Plain("DNAME")
           THEN "DNAME" ELSE "DELEGATION",
           search.zonecut,
           IF search.copy_name THEN search.zonecut_name ELSE foundname,
           FALSE,
           search.zonecut_header,
           search.zonecut_sigheader,
           Locked(search, search.zonecut))

\* setup_delegation: hand the zone cut found to the caller.
setup_delegation(search, foundname) ==
    Answer(IF search.zonecut_header.type = Plain("DNAME")
           THEN "DNAME" ELSE "DELEGATION",
           search.zonecut,
           IF search.copy_name THEN search.zonecut_name ELSE foundname,
           FALSE,
           search.zonecut_header,
           search.zonecut_sigheader,
           Locked([search EXCEPT !.need_cleanup = FALSE], search.zonecut))

\* The test step() makes of a node: some header at the head of a type's
\* stack has serial <= the search serial, is not ignored and exists.
StepHasData(node, serial) ==
    \E i \in 1..Len(node.data) :
        LET header == node.data[i][1]
        IN  header.serial <= serial /\ ~IGNORE(header) /\ EXISTS(header)

\* step(search, iter, direction, nextname): walk from the iterator's position
\* to the first node with data; the name found, or NoNode for false.
RECURSIVE step(_, _, _)
step(search, pos, direction) ==
    IF pos = NoNode THEN NoNode
    ELSE IF StepHasData(tree[pos], search.serial) THEN pos
    ELSE step(search,
              IF direction = "FORWARD" THEN dns_qpiter_next(DOMAIN tree, pos)
              ELSE dns_qpiter_prev(DOMAIN tree, pos),
              direction)

\* The nodes step() looks at from pos on, each under the lock of its bucket.
RECURSIVE StepLocks(_, _, _)
StepLocks(search, pos, direction) ==
    IF pos = NoNode THEN << >>
    ELSE IF StepHasData(tree[pos], search.serial) THEN <<pos>>
    ELSE <<pos>> \o
         StepLocks(search,
                   IF direction = "FORWARD"
                   THEN dns_qpiter_next(DOMAIN tree, pos)
                   ELSE dns_qpiter_prev(DOMAIN tree, pos),
                   direction)

\* The nodes activeempty looks at: those of its step forward.
ActiveEmptyLocks(search, iter) ==
    StepLocks(search, dns_qpiter_next(DOMAIN tree, iter), "FORWARD")

\* The nodes wildcard_blocked looks at: those of its step back and of its
\* step forward.
BlockedLocks(search) ==
    StepLocks(search, search.iter, "BACK")
        \o StepLocks(search, dns_qpiter_next(DOMAIN tree, search.iter),
                     "FORWARD")

\* activeempty(search, iter, current): the next name with data lies beneath
\* current, so current is an empty non-terminal.
activeempty(search, iter, current) ==
    LET n    == dns_qpiter_next(DOMAIN tree, iter)
        next == step(search, n, "FORWARD")
    IN  /\ n # NoNode
        /\ next # NoNode
        /\ dns_name_issubdomain(next, current)

\* The loop of wildcard_blocked over the label suffixes of the qname.
RECURSIVE BlockedFrom(_, _, _, _)
BlockedFrom(rname, tname, prev, next) ==
    IF \/ (prev # NoNode /\ dns_name_issubdomain(prev, rname))
       \/ (next # NoNode /\ dns_name_issubdomain(next, rname))
    THEN TRUE
    ELSE IF StripLeft(rname) = tname THEN FALSE
    ELSE BlockedFrom(StripLeft(rname), tname, prev, next)

\* A wildcard_blocked that never finds the wildcard blocked.
wildcard_never_blocked(search, qname, wname) == FALSE

\* wildcard_blocked(search, qname, wname): an empty non-terminal lies
\* between the wildcard level and the qname.
wildcard_blocked(search, qname, wname) ==
    LET prev == step(search, search.iter, "BACK")
        n    == dns_qpiter_next(DOMAIN tree, search.iter)
        next == IF n # NoNode THEN step(search, n, "FORWARD") ELSE NoNode
    IN  IF prev = NoNode /\ next = NoNode THEN FALSE
        ELSE BlockedFrom(qname, StripLeft(wname), prev, next)

\* The test find_wildcard makes of a level and of its wildcard node.
WildHasData(node, serial) ==
    \E i \in 1..Len(node.data) :
        LET header == node.data[i][1]
        IN  /\ header.serial <= serial
            /\ ~IGNORE(header) /\ EXISTS(header) /\ ~ANCIENT(header)

\* The nodes find_wildcard looks at on the level of name, each under the
\* lock of its bucket: the node of the level, the wildcard node when it is
\* there, and those activeempty looks at when the wildcard node has no data.
LevelLocks(search, name, wname, lk) ==
    <<name>> \o
    (IF tree[name].wild /\ lk.result = "SUCCESS"
     THEN <<wname>> \o
          (IF WildHasData(tree[wname], search.serial) THEN << >>
           ELSE ActiveEmptyLocks(search, lk.iter))
     ELSE << >>)

\* find_wildcard(search, nodep, qname): the loop over the chain from the
\* closest level upwards; result carries over from one level to the next,
\* locked are the nodes looked at so far.
RECURSIVE WildcardFrom(_, _, _, _, _)
\* One level of the loop, with the node of the level active or not and
\* its wildcard node found (wfound) or not.
WildcardLevel(search, qname, i, active, wname, wfound, res, locked) ==
    IF wfound
        THEN (IF wildcard_blocked(search, qname, wname)
              THEN [result |-> "NOTFOUND", node |-> NoNode,
                    locked |-> locked \o BlockedLocks(search)]
              ELSE [result |-> "SUCCESS", node |-> wname,
                    locked |-> locked \o BlockedLocks(search)])
        ELSE IF active
        THEN [result |-> "NOTFOUND", node |-> NoNode, locked |-> locked]
        ELSE WildcardFrom(search, qname, i - 1, res, locked)

WildcardFrom(search, qname, i, result, locked) ==
    IF i < 1 THEN [result |-> result, node |-> NoNode, locked |-> locked]
    ELSE
    LET name   == search.chain[i]
        node   == tree[name]
        active == WildHasData(node, search.serial)
        wname  == WildcardOf(name)
        lk     == dns_qp_lookup(DOMAIN tree, wname)
        wfound == /\ node.wild
                  /\ lk.result = "SUCCESS"
                  /\ \/ WildHasData(tree[wname], search.serial)
                     \/ activeempty(search, lk.iter, wname)
        res    == IF node.wild THEN lk.result ELSE result
    IN  WildcardLevel(search, qname, i, active, wname, wfound, res,
                      locked \o LevelLocks(search, name, wname, lk))

find_wildcard(search, qname) ==
    WildcardFrom(search, qname, Len(search.chain), "NOTFOUND", << >>)

\* Whether any type of the node has a header active at the serial.
EmptyNode(node, serial) ==
    \A i \in 1..Len(node.data) : ActiveHeader(node.data[i], serial) = NoHeader

\* The walk of previous_closest_nsec through the auxiliary NSEC tree: from
\* position p backwards to the first name that also has a main-tree node.
RECURSIVE NsecWalk(_)
NsecWalk(p) ==
    IF p = NoNode THEN [result |-> "NOMORE", name |-> NoNode]
    ELSE IF p \in DOMAIN tree THEN [result |-> "SUCCESS", name |-> p]
    ELSE NsecWalk(dns_qpiter_prev(nsec, p))

\* previous_closest_nsec for type NSEC.  On the first call the walk starts
\* from a lookup of name in the auxiliary tree: before name when it is
\* there, at the iterator's position (its predecessor) when it is not; an
\* iterator without a position makes dns_qpiter_current fail.
previous_closest_nsec(name, nseciter, first) ==
    IF first /\ name \notin nsec /\ dns_qpiter_prev(nsec, name) = NoNode
    THEN [result |-> "FAILURE", name |-> NoNode]
    ELSE NsecWalk(dns_qpiter_prev(nsec, IF first THEN name ELSE nseciter))

\* The loop of find_closest_nsec from the iterator's position backwards,
\* in the NSEC3 tree (isnsec3, type NSEC3) or in the main tree (type NSEC).
\* pos is the node examined, nseciter the position in the auxiliary tree,
\* wraps whether the walk may still restart from the end, and walk the
\* positions examined so far, one sequence for each pass.
RECURSIVE ClosestNsecFrom(_, _, _, _, _, _, _)
\* The end of the loop with the answer prev of previous_closest_nsec: on to
\* the node before, from the end of the tree again when the beginning is
\* reached and the walk wraps, and BADDB when there is no more.
ClosestNsecNext(search, isnsec3, wraps, prev, walk) ==
    IF prev.result = "SUCCESS"
        THEN ClosestNsecFrom(search, isnsec3, wraps, prev.name, prev.name,
                             FALSE, walk)
        ELSE IF prev.result = "NOMORE" /\ wraps
        THEN ClosestNsecFrom(search, isnsec3, FALSE, Greatest(DOMAIN nsec3),
                             NoNode, FALSE, Append(walk, << >>))
        ELSE [result |-> IF prev.result = "NOMORE" THEN "BADDB"
                         ELSE prev.result,
              node |-> NoNode, foundname |-> NoNode,
              rdataset |-> NoHeader, sigrdataset |-> NoHeader, walk |-> walk]

\* One pass of the loop at the node found at pos, given its active NSEC or
\* NSEC3 (found), its signature (foundsig) and whether no header of the
\* node is active (empty).
ClosestNsecAt(search, isnsec3, wraps, pos, prev, found, foundsig, empty, walk) ==
    IF /\ ~empty /\ found # NoHeader /\ search.havensec3
       /\ found.type = Plain("NSEC3") /\ ~matchparams(found, search)
        THEN ClosestNsecNext(search, isnsec3, wraps, prev, walk)
        ELSE IF ~empty /\ found # NoHeader
                /\ (foundsig # NoHeader \/ ~search.secure)
        THEN [result |-> "SUCCESS", node |-> pos, foundname |-> pos,
              rdataset |-> found, sigrdataset |-> foundsig, walk |-> walk]
        ELSE IF ~empty /\ (found # NoHeader \/ foundsig # NoHeader)
        THEN [result |-> "BADDB", node |-> NoNode, foundname |-> NoNode,
              rdataset |-> NoHeader, sigrdataset |-> NoHeader, walk |-> walk]
        ELSE ClosestNsecNext(search, isnsec3, wraps, prev, walk)

\* The node the iterator is at, in the tree the walk goes through.
ClosestNsecNode(isnsec3, pos) == IF isnsec3 THEN nsec3[pos] ELSE tree[pos]

\* The type pair sought: NSEC3 in the NSEC3 tree, NSEC in the main tree.
ClosestNsecType(isnsec3) == IF isnsec3 THEN "NSEC3" ELSE "NSEC"

\* previous_closest_nsec for either type: for NSEC3 the node before in the
\* NSEC3 tree.
PreviousClosest(isnsec3, pos, nseciter, first) ==
    IF isnsec3
        THEN [result |-> IF dns_qpiter_prev(DOMAIN nsec3, pos) = NoNode
                         THEN "NOMORE" ELSE "SUCCESS",
              name   |-> dns_qpiter_prev(DOMAIN nsec3, pos)]
        ELSE previous_closest_nsec(pos, nseciter, first)

ClosestNsecFrom(search, isnsec3, wraps, pos, nseciter, first, walk) ==
    ClosestNsecAt(search, isnsec3, wraps, pos,
                  PreviousClosest(isnsec3, pos, nseciter, first),
                  ActiveOfType(ClosestNsecNode(isnsec3, pos),
                               Plain(ClosestNsecType(isnsec3)), search.serial),
                  ActiveOfType(ClosestNsecNode(isnsec3, pos),
                               DNS_SIGTYPE(ClosestNsecType(isnsec3)),
                               search.serial),
                  EmptyNode(ClosestNsecNode(isnsec3, pos), search.serial),
                  [walk EXCEPT ![Len(walk)] = Append(@, pos)])

\* find_closest_nsec(search, ..., tree, secure): isnsec3 when tree is the
\* NSEC3 tree.
find_closest_nsec(search, isnsec3) ==
    IF search.iter = NoNode
    THEN [result |-> "FAILURE", node |-> NoNode, foundname |-> NoNode,
          rdataset |-> NoHeader, sigrdataset |-> NoHeader, walk |-> << >>]
    ELSE ClosestNsecFrom(search, isnsec3, isnsec3, search.iter, NoNode, TRUE,
                         << << >> >>)

\* The sequences of seqs, one after the other.
RECURSIVE Concat(_)
Concat(seqs) ==
    IF seqs = << >> THEN << >> ELSE Head(seqs) \o Concat(Tail(seqs))

\* The search after find_closest_nsec answered cn: with a reference to the
\* node it found, and with the positions it examined.
Walked(search, cn) ==
    [LockedAll(IF cn.result = "SUCCESS"
               THEN dns__qpdb_newref(search, cn.node) ELSE search,
               Concat(cn.walk))
     EXCEPT !.walk = cn.walk]

\* The search after find_wildcard answered fw, when it was called.
Wildcarded(search, fw) ==
    IF search.wild THEN LockedAll(search, fw.locked) ELSE search

\* The search after find_wildcard found no wildcard and activeempty, when
\* it was called, looked for data beneath the name.
NoMatch(search, fw) ==
    LockedAll(Wildcarded(search, fw),
              IF "FORCENSEC3" \in search.options THEN << >>
              ELSE ActiveEmptyLocks(search, search.iter))

\* The loop of zone_find over the ancestors of the qname: check_zonecut on
\* every ancestor with find_callback set, stopping at the first one that
\* does not answer CONTINUE.  i counts from 1; the code's index is i - 1.
RECURSIVE AncestorScan(_, _, _)
AncestorScan(search, i, len) ==
    IF i > len THEN [search |-> search, forced |-> FALSE, node |-> NoNode]
    ELSE IF ~SearchTree(search)[search.chain[i]].find_callback
    THEN AncestorScan(search, i + 1, len)
    ELSE LET zc == check_zonecut(search.chain[i],
                                 [search EXCEPT
                                     !.examined = Append(@, search.chain[i])])
         IN  IF zc.result # "CONTINUE"
             THEN [search |-> [zc.search EXCEPT
                                  !.chainlen = UInt32((i - 1) - 1)],
                   forced |-> TRUE,
                   node   |-> search.chain[i]]
             ELSE AncestorScan(zc.search, i + 1, len)

\* The state of a scan that never looks for a zone cut at the node found.
NewScanNoCut(search, type, maybe_zonecut) ==
    [search        |-> search,
     found         |-> NoHeader,
     foundsig      |-> NoHeader,
     sigtype       |-> DNS_SIGTYPE(type),
     nsecheader    |-> NoHeader,
     nsecsig       |-> NoHeader,
     cnamesig      |-> NoHeader,
     empty_node    |-> TRUE,
     maybe_zonecut |-> FALSE,
     at_zonecut    |-> FALSE,
     partial       |-> FALSE]

\* The state of the scan of the header chain of the node found.
NewScan(search, type, maybe_zonecut) ==
    [search        |-> search,
     found         |-> NoHeader,
     foundsig      |-> NoHeader,
     sigtype       |-> DNS_SIGTYPE(type),
     nsecheader    |-> NoHeader,
     nsecsig       |-> NoHeader,
     cnamesig      |-> NoHeader,
     empty_node    |-> TRUE,
     maybe_zonecut |-> maybe_zonecut,
     at_zonecut    |-> FALSE,
     partial       |-> FALSE]

\* The scan of the header chain of the node found, from stack i on.
RECURSIVE ScanChain(_, _, _, _, _, _)
ScanChain(name, data, type, cname_ok, i, st) ==
    IF i > Len(data) THEN st
    ELSE
    LET header == ActiveHeader(data[i], st.search.serial)
        iscut  == st.maybe_zonecut /\ header.type = Plain("NS")
        st1    == IF iscut
                  THEN [st EXCEPT !.empty_node = FALSE,
                                  !.search.zonecut = name,
                                  !.search.zonecut_header = header,
                                  !.search.zonecut_sigheader = NoHeader,
                                  !.search.need_cleanup = TRUE,
                                  !.search.newrefs = Append(@, name),
                                  !.maybe_zonecut = FALSE,
                                  !.at_zonecut = TRUE]
                  ELSE [st EXCEPT !.empty_node = FALSE]
        iscname == header.type = Plain("CNAME") /\ cname_ok
        st2    == [st1 EXCEPT
                      !.found = header,
                      !.foundsig = IF iscname /\ st1.cnamesig # NoHeader
                                   THEN st1.cnamesig ELSE @,
                      !.sigtype = IF iscname /\ st1.cnamesig = NoHeader
                                  THEN DNS_SIGTYPE("CNAME") ELSE @]
        st3    == [st1 EXCEPT !.foundsig = header]
    IN  IF header = NoHeader
        THEN ScanChain(name, data, type, cname_ok, i + 1, st)
        ELSE IF /\ iscut
                /\ "GLUEOK" \notin st.search.options
                /\ type \notin {"NSEC", "KEY"}
        THEN [st1 EXCEPT !.found = NoHeader]
        ELSE IF iscut /\ st1.found # NoHeader /\ st1.foundsig # NoHeader
        THEN st1
        ELSE IF header.type = Plain("NSEC3") /\ ~matchparams(header, st.search)
        THEN [st1 EXCEPT !.partial = TRUE]
        ELSE IF header.type = Plain(type) \/ type = "ANY" \/ iscname
        THEN (IF ~st2.maybe_zonecut /\ st2.foundsig # NoHeader
              THEN st2
              ELSE ScanChain(name, data, type, cname_ok, i + 1, st2))
        ELSE IF header.type = st1.sigtype
        THEN (IF ~st3.maybe_zonecut /\ st3.found # NoHeader
              THEN st3
              ELSE ScanChain(name, data, type, cname_ok, i + 1, st3))
        ELSE IF header.type = Plain("NSEC") /\ ~st.search.havensec3
        THEN ScanChain(name, data, type, cname_ok, i + 1,
                       [st1 EXCEPT !.nsecheader = header])
        ELSE IF header.type = DNS_SIGTYPE("NSEC") /\ ~st.search.havensec3
        THEN ScanChain(name, data, type, cname_ok, i + 1,
                       [st1 EXCEPT !.nsecsig = header])
        ELSE IF cname_ok /\ header.type = DNS_SIGTYPE("CNAME")
        THEN ScanChain(name, data, type, cname_ok, i + 1,
                       [st1 EXCEPT !.cnamesig = header])
        ELSE ScanChain(name, data, type, cname_ok, i + 1, st1)

\* A result code that never tells of a CNAME found in place of the type.
FoundResultNoCname(search, name, type, found) ==
    IF search.zonecut # NoNode THEN "GLUE" ELSE "SUCCESS"

\* A result code that calls everything found under a zone cut glue.
FoundResultAllGlue(search, name, type, found) ==
    IF Plain(type) # found.type /\ type # "ANY" /\ found.type = Plain("CNAME")
    THEN "CNAME"
    ELSE IF search.zonecut # NoNode THEN "GLUE" ELSE "SUCCESS"

\* The result code of a query that found its rdataset.
FoundResult(search, name, type, found) ==
    IF Plain(type) # found.type /\ type # "ANY" /\ found.type = Plain("CNAME")
    THEN "CNAME"
    ELSE IF search.zonecut # NoNode
    THEN (IF search.zonecut = name
          THEN (IF type \in {"NSEC", "NSEC3", "KEY"} THEN "SUCCESS"
                ELSE IF type = "ANY" THEN "ZONECUT"
                ELSE "GLUE")
          ELSE "GLUE")
    ELSE "SUCCESS"

\* zone_find from its labels partial_match and found onwards.  qname and
\* type are the query, node the node pointer of zone_find, foundname the
\* name bound so far, wild whether the node was reached by a wildcard.
RECURSIVE PartialMatch(_, _, _, _, _)
RECURSIVE Found(_, _, _, _, _, _)
\* The partial-match path of zone_find, given the answer fw of find_wildcard,
\* the code for a name that is not there and the answer cn of
\* find_closest_nsec.
PartialMatchWith(search, qname, type, node, foundname, fw, code, cn) ==
    IF search.zonecut # NoNode
        THEN setup_delegation(search, foundname)
        ELSE IF search.wild /\ fw.result = "SUCCESS"
        THEN Found(Wildcarded(search, fw), qname, type,
                   IF fw.node = NoNode THEN node ELSE fw.node, qname, TRUE)
        ELSE IF search.wild /\ fw.result # "NOTFOUND"
        THEN Answer(fw.result, NoNode, foundname, FALSE, NoHeader, NoHeader,
                    Wildcarded(search, fw))
        ELSE IF \/ (search.secure /\ ~search.havensec3)
                \/ "FORCENSEC3" \in search.options
        THEN Answer(IF cn.result = "SUCCESS" THEN code ELSE cn.result,
                    cn.node,
                    IF cn.result = "SUCCESS" THEN cn.foundname ELSE foundname,
                    FALSE, cn.rdataset, cn.sigrdataset,
                    Walked(NoMatch(search, fw), cn))
        ELSE Answer(code, NoNode, foundname, FALSE, NoHeader, NoHeader,
                    NoMatch(search, fw))

PartialMatch(search, qname, type, node, foundname) ==
    PartialMatchWith(search, qname, type, node, foundname,
                     find_wildcard(search, qname),
                     IF /\ "FORCENSEC3" \notin search.options
                        /\ activeempty(search, search.iter, qname)
                     THEN "EMPTYNAME" ELSE "NXDOMAIN",
                     find_closest_nsec(search,
                                       "FORCENSEC3" \in search.options))

\* A result selection that leaves for tree_exit, the lock of the node still
\* held, when the node lacks the NSEC or its signature.
FoundWith_baddb_locked(qname, type, node, foundname, wild, st, srch, nonsec, cn) ==
    IF st.partial \/ (st.empty_node /\ ~wild)
        THEN PartialMatch(node_exit(srch, node), qname, type, node, foundname)
        ELSE IF st.found = NoHeader /\ srch.zonecut # NoNode
        THEN setup_delegation(node_exit(srch, node), foundname)
        ELSE IF st.found = NoHeader /\ nonsec /\ ~wild
        THEN Answer("BADDB", NoNode, foundname, FALSE, NoHeader, NoHeader,
                    srch)
        ELSE IF st.found = NoHeader /\ nonsec
        THEN Answer(IF cn.result = "SUCCESS" THEN "EMPTYWILD" ELSE cn.result,
                    cn.node,
                    IF cn.result = "SUCCESS" THEN cn.foundname ELSE foundname,
                    FALSE, cn.rdataset, cn.sigrdataset,
                    Walked(node_exit(srch, node), cn))
        ELSE IF st.found = NoHeader
        THEN Answer("NXRRSET", node, foundname, wild,
                    IF srch.secure /\ ~srch.havensec3
                    THEN st.nsecheader ELSE NoHeader,
                    IF srch.secure /\ ~srch.havensec3
                    THEN st.nsecsig ELSE NoHeader,
                    node_exit(dns__qpdb_newref(srch, node), node))
        ELSE Answer(FoundResult(srch, node, type, st.found), node, foundname,
                    wild,
                    IF type # "ANY" THEN st.found ELSE NoHeader,
                    IF type # "ANY" THEN st.foundsig ELSE NoHeader,
                    node_exit(IF st.at_zonecut
                              THEN [srch EXCEPT !.need_cleanup = FALSE]
                              ELSE dns__qpdb_newref(srch, node), node))

\* The result selection of zone_find after the scan st of the header
\* chains of node, srch being the search after it and cn the answer of
\* find_closest_nsec.
FoundWith(qname, type, node, foundname, wild, st, srch, nonsec, cn) ==
    IF st.partial \/ (st.empty_node /\ ~wild)
        THEN PartialMatch(node_exit(srch, node), qname, type, node, foundname)
        ELSE IF st.found = NoHeader /\ srch.zonecut # NoNode
        THEN setup_delegation(node_exit(srch, node), foundname)
        ELSE IF st.found = NoHeader /\ nonsec /\ ~wild
        THEN Answer("BADDB", NoNode, foundname, FALSE, NoHeader, NoHeader,
                    node_exit(srch, node))
        ELSE IF st.found = NoHeader /\ nonsec
        THEN Answer(IF cn.result = "SUCCESS" THEN "EMPTYWILD" ELSE cn.result,
                    cn.node,
                    IF cn.result = "SUCCESS" THEN cn.foundname ELSE foundname,
                    FALSE, cn.rdataset, cn.sigrdataset,
                    Walked(node_exit(srch, node), cn))
        ELSE IF st.found = NoHeader
        THEN Answer("NXRRSET", node, foundname, wild,
                    IF srch.secure /\ ~srch.havensec3
                    THEN st.nsecheader ELSE NoHeader,
                    IF srch.secure /\ ~srch.havensec3
                    THEN st.nsecsig ELSE NoHeader,
                    node_exit(dns__qpdb_newref(srch, node), node))
        ELSE Answer(FoundResult(srch, node, type, st.found), node, foundname,
                    wild,
                    IF type # "ANY" THEN st.found ELSE NoHeader,
                    IF type # "ANY" THEN st.foundsig ELSE NoHeader,
                    node_exit(IF st.at_zonecut
                              THEN [srch EXCEPT !.need_cleanup = FALSE]
                              ELSE dns__qpdb_newref(srch, node), node))

\* A secure zone without NSEC3 whose node lacks the NSEC or its signature.
NoNsec(st) ==
    /\ st.search.secure /\ ~st.search.havensec3
    /\ (st.nsecheader = NoHeader \/ st.nsecsig = NoHeader)

FoundScanned(qname, type, node, foundname, wild, st) ==
    FoundWith(qname, type, node, foundname, wild, st, st.search, NoNsec(st),
              find_closest_nsec(st.search, FALSE))

\* zone_find from its label found on, the node's next chain being data.
FoundIn(search, qname, type, node, foundname, wild, data) ==
    FoundScanned(
        qname, type, node, foundname, wild,
        ScanChain(node, data, type,
                  search.zonecut = NoNode /\ type \notin {"KEY", "NSEC"}, 1,
                  NewScan(NODE_RDLOCK(search, locknum(node)), type,
                          /\ search.zonecut = NoNode
                          /\ SearchTree(search)[node].find_callback
                          /\ \/ (node # origin /\ ~dns_rdatatype_atparent(type))
                             \/ IS_STUB)))

Found(search, qname, type, node, foundname, wild) ==
    FoundIn(search, qname, type, node, foundname, wild,
            SearchTree(search)[node].data)

\* zone_find(db, name, version, type, options).
\* zone_find after the lookup lk and the scan of the ancestors.
ZoneFindScanned(name, type, lk, scan) ==
    IF scan.forced
        THEN PartialMatch(scan.search, name, type, scan.node, lk.foundname)
        ELSE IF lk.result = "PARTIALMATCH"
        THEN PartialMatch(scan.search, name, type, lk.node, lk.foundname)
        ELSE IF lk.result # "SUCCESS"
        THEN Answer(lk.result, NoNode, lk.foundname, FALSE, NoHeader, NoHeader,
                    scan.search)
        ELSE Found(scan.search, name, type, name, lk.foundname, FALSE)

ZoneFindFrom(name, version, type, options, close_version, lk) ==
    ZoneFindScanned(name, type, lk,
                    AncestorScan([NewSearch(version, options, lk) EXCEPT
                                     !.close_version = close_version], 1,
                                 IF lk.result = "SUCCESS"
                                 THEN Len(lk.chain) - 1 ELSE Len(lk.chain)))

zone_find(name, version, type, options) ==
    ZoneFindFrom(name,
                 IF version = NoVersion THEN current_version ELSE version,
                 type, options, version = NoVersion,
                 dns_qp_lookup(IF "FORCENSEC3" \in options
                               THEN DOMAIN nsec3 ELSE DOMAIN tree, name))

\* The scan of zone_findrdataset over the header chain, from stack i on.
RECURSIVE FindRdatasetFrom(_, _, _, _, _, _)
FindRdatasetFrom(data, serial, matchtype, sigmatchtype, i, st) ==
    IF i > Len(data) THEN st
    ELSE
    LET header == ActiveHeader(data[i], serial)
        st1    == [st EXCEPT !.found = header]
        st2    == [st EXCEPT !.foundsig = header]
    IN  IF header # NoHeader /\ header.type = matchtype
        THEN (IF st1.foundsig # NoHeader THEN st1
              ELSE FindRdatasetFrom(data, serial, matchtype, sigmatchtype,
                                    i + 1, st1))
        ELSE IF header # NoHeader /\ header.type = sigmatchtype
        THEN (IF st2.found # NoHeader THEN st2
              ELSE FindRdatasetFrom(data, serial, matchtype, sigmatchtype,
                                    i + 1, st2))
        ELSE FindRdatasetFrom(data, serial, matchtype, sigmatchtype, i + 1, st)

\* zone_findrdataset(db, node, version, type, covers).
zone_findrdataset(node, version, type, covers) ==
    LET matchtype    == DNS_TYPEPAIR_VALUE(type, covers)
        sigmatchtype == IF covers = NoCovers THEN DNS_SIGTYPE(type)
                        ELSE Plain("NONE")
        st == FindRdatasetFrom(node.data, version.serial, matchtype,
                               sigmatchtype, 1,
                               [found |-> NoHeader, foundsig |-> NoHeader])
    IN  [result      |-> IF st.found = NoHeader THEN "NOTFOUND" ELSE "SUCCESS",
         rdataset    |-> st.found,
         sigrdataset |-> IF st.found = NoHeader THEN NoHeader ELSE st.foundsig]

(***************************************************************************)
(* Signing times.                                                          *)
(***************************************************************************)
\* setsigningtime with the two heap movements exchanged: a header whose time
\* became sooner is sunk and one whose time became later is floated.
setsigningtime_swapped(t, hs, ref, resign) ==
    LET oldheader == HeaderOf(t, ref)
        header    == IF resign # 0
                     THEN [oldheader EXCEPT
                              !.resign = dns_time64_from32(resign) \div 2,
                              !.resign_lsb = resign % 2]
                     ELSE oldheader
        t1        == SetHeader(t, ref, header)
        b         == locknum(ref.name)
        deleted   == [hs EXCEPT ![b] =
                         isc_heap_delete(t1, @, header.heap_index)]
        increased == [hs EXCEPT ![b] =
                         isc_heap_decreased(t1, @, header.heap_index)]
        decreased == [hs EXCEPT ![b] =
                         isc_heap_increased(t1, @, header.heap_index)]
        inserted  == dns__qpzone_resigninsert(
                         SetHeader(t, ref,
                                   [header EXCEPT !.attributes =
                                                      @ \cup {"RESIGN"}]),
                         hs, ref)
    IN  IF header.heap_index # 0 /\ resign = 0
        THEN [tree   |-> set_index(SetHeader(t1, ref,
                                             [header EXCEPT !.heap_index = 0]),
                                   deleted),
              heaps  |-> deleted,
              heapop |-> "delete"]
        ELSE IF header.heap_index # 0 /\ sooner(header, oldheader)
        THEN [tree |-> set_index(t1, increased), heaps |-> increased,
              heapop |-> "increased"]
        ELSE IF header.heap_index # 0 /\ sooner(oldheader, header)
        THEN [tree |-> set_index(t1, decreased), heaps |-> decreased,
              heapop |-> "decreased"]
        ELSE IF header.heap_index # 0
        THEN [tree |-> t1, heaps |-> hs, heapop |-> "none"]
        ELSE IF resign # 0
        THEN [tree |-> inserted.tree, heaps |-> inserted.heaps,
              heapop |-> "insert"]
        ELSE [tree |-> t1, heaps |-> hs, heapop |-> "none"]

\* setsigningtime(db, rdataset, resign), the rdataset bound to the header
\* ref points to: the tree and the heaps after the call, and which heap
\* operation it made.
setsigningtime(t, hs, ref, resign) ==
    LET oldheader == HeaderOf(t, ref)
        header    == IF resign # 0
                     THEN [oldheader EXCEPT
                              !.resign = dns_time64_from32(resign) \div 2,
                              !.resign_lsb = resign % 2]
                     ELSE oldheader
        t1        == SetHeader(t, ref, header)
        b         == locknum(ref.name)
        deleted   == [hs EXCEPT ![b] =
                         isc_heap_delete(t1, @, header.heap_index)]
        increased == [hs EXCEPT ![b] =
                         isc_heap_increased(t1, @, header.heap_index)]
        decreased == [hs EXCEPT ![b] =
                         isc_heap_decreased(t1, @, header.heap_index)]
        inserted  == dns__qpzone_resigninsert(
                         SetHeader(t, ref,
                                   [header EXCEPT !.attributes =
                                                      @ \cup {"RESIGN"}]),
                         hs, ref)
    IN  IF header.heap_index # 0 /\ resign = 0
        THEN [tree   |-> set_index(SetHeader(t1, ref,
                                             [header EXCEPT !.heap_index = 0]),
                                   deleted),
              heaps  |-> deleted,
              heapop |-> "delete"]
        ELSE IF header.heap_index # 0 /\ sooner(header, oldheader)
        THEN [tree |-> set_index(t1, increased), heaps |-> increased,
              heapop |-> "increased"]
        ELSE IF header.heap_index # 0 /\ sooner(oldheader, header)
        THEN [tree |-> set_index(t1, decreased), heaps |-> decreased,
              heapop |-> "decreased"]
        ELSE IF header.heap_index # 0
        THEN [tree |-> t1, heaps |-> hs, heapop |-> "none"]
        ELSE IF resign # 0
        THEN [tree |-> inserted.tree, heaps |-> inserted.heaps,
              heapop |-> "insert"]
        ELSE [tree |-> t1, heaps |-> hs, heapop |-> "none"]

\* The locals of getsigningtime on entry.
NewSigningScan ==
    [header |-> NoRef, locknum |-> 0, tlocktype |-> "none",
     nlocktype |-> "none", events |-> << >>]

\* A loop body that keeps the lock of the bucket it leaves behind when it
\* finds an earlier signing time.
SigningBucket_keepprevious(t, st, i, this) ==
    IF this = NoRef THEN NODE_UNLOCK(st, i)
    ELSE IF st.header = NoRef
    THEN [st EXCEPT !.header = this, !.locknum = i, !.nlocktype = "none"]
    ELSE IF sooner(HeaderOf(t, this), HeaderOf(t, st.header))
    THEN [st EXCEPT !.header = this, !.locknum = i]
    ELSE NODE_UNLOCK(st, i)

\* The body of the loop of getsigningtime for bucket i, its lock taken:
\* this is the first element of the heap of the bucket.
SigningBucket(t, st, i, this) ==
    IF this = NoRef THEN NODE_UNLOCK(st, i)
    ELSE IF st.header = NoRef
    THEN [st EXCEPT !.header = this, !.locknum = i, !.nlocktype = "none"]
    ELSE IF sooner(HeaderOf(t, this), HeaderOf(t, st.header))
    THEN [NODE_UNLOCK(st, st.locknum) EXCEPT !.header = this, !.locknum = i]
    ELSE NODE_UNLOCK(st, i)

\* The scan of getsigningtime over the buckets from i on; st.header is the
\* earliest header found so far, or NoRef.
RECURSIVE SigningScan(_, _, _, _)
SigningScan(t, hs, i, st) ==
    IF i >= node_lock_count THEN st
    ELSE SigningScan(t, hs, i + 1,
                     SigningBucket(t, NODE_RDLOCK(st, i), i,
                                   isc_heap_element(hs[i])))

\* The end of getsigningtime after the scan st: the header found is bound
\* under the lock of its bucket.
SigningBound(st) ==
    NODE_UNLOCK([st EXCEPT !.nlocktype = "read",
                           !.events = Append(@, LockEvent("bindrdataset",
                                                          st.locknum, "read"))],
                st.locknum)

\* What getsigningtime hands back after the scan st.
SigningResult(t, st) ==
    IF st.header = NoRef
        THEN [result |-> "NOTFOUND", rdataset |-> NoHeader,
              foundname |-> NoNode, type |-> Plain("NONE"),
              locks |-> TREE_UNLOCK(st).events]
        ELSE [result |-> "SUCCESS", rdataset |-> HeaderOf(t, st.header),
              foundname |-> st.header.name, type |-> st.header.type,
              locks |-> TREE_UNLOCK(SigningBound(st)).events]

\* getsigningtime(db, rdataset, foundname).
getsigningtime(t, hs) ==
    SigningResult(t, SigningScan(t, hs, 0, TREE_RDLOCK(NewSigningScan)))

(***************************************************************************)
(* The glue cache.                                                         *)
(***************************************************************************)
\* header->glue_list: NULL, the sentinel (void *)-1, or a chain of glue
\* allocated by one caller.
NullGlue == [list |-> << >>, owner |-> "NULL"]

EMPTY == [list |-> << >>, owner |-> "EMPTY"]

\* The name server an NS rdata names, and the order of the rdata in a slab.
nsdname(rdata) ==
    CASE rdata = "ns1" -> <<2, 1, 4>>
      [] rdata = "ns2" -> <<2, 1, 5>>
      [] OTHER         -> <<6>>

NsOrder == <<"ns1", "ns2", "ns3">>

\* glue == NULL in glue_nsdname_cb, and a new glue entry for a name.
NoGlue ==
    [name |-> NoNode, rdataset_a |-> NoHeader, sigrdataset_a |-> NoHeader,
     rdataset_aaaa |-> NoHeader, sigrdataset_aaaa |-> NoHeader]

new_gluelist(name) == [NoGlue EXCEPT !.name = name]

\* rdataset.attributes |= DNS_RDATASETATTR_REQUIRED, on an associated one.
SetRequired(rdataset) ==
    IF rdataset = NoHeader THEN rdataset
    ELSE [rdataset EXCEPT !.attributes = @ \cup {"REQUIRED"}]

IS_REQUIRED_GLUE(rdataset) == "REQUIRED" \in rdataset.attributes

\* The answers of the two zone_find calls glue_nsdname_cb makes for each NS
\* target, under GLUEOK in the version of the caller.
GlueFinds(version) ==
    [name \in {nsdname(NsOrder[i]) : i \in DOMAIN NsOrder} |->
        [type \in {"A", "AAAA"} |->
            zone_find(name, version, type, {"GLUEOK"})]]

\* glue_nsdname_cb for one NS target, found being the answers of its two
\* zone_find calls: the context with the glue found for the target put in
\* front of its list.
glue_nsdname_cb(ctx, name, found) ==
    LET a    == found["A"]
        aaaa == found["AAAA"]
        g1   == IF a.result = "GLUE"
                THEN [new_gluelist(a.foundname) EXCEPT
                         !.rdataset_a = a.rdataset,
                         !.sigrdataset_a = a.sigrdataset]
                ELSE NoGlue
        g2   == IF aaaa.result = "GLUE"
                THEN [(IF g1 = NoGlue THEN new_gluelist(aaaa.foundname)
                       ELSE g1) EXCEPT
                         !.rdataset_aaaa = aaaa.rdataset,
                         !.sigrdataset_aaaa = aaaa.sigrdataset]
                ELSE g1
        glue == IF g2 # NoGlue /\ dns_name_issubdomain(name, ctx.nodename)
                THEN [g2 EXCEPT !.rdataset_a = SetRequired(@),
                                !.rdataset_aaaa = SetRequired(@)]
                ELSE g2
    IN  IF glue # NoGlue
        THEN [ctx EXCEPT !.glue_list = <<glue>> \o @]
        ELSE ctx

\* dns_rdataset_additionaldata over the rdata of an NS rdataset, from the
\* i-th of the slab on.
RECURSIVE dns_rdataset_additionaldata(_, _, _, _)
dns_rdataset_additionaldata(rdataset, i, ctx, finds) ==
    IF i > Len(NsOrder) THEN ctx
    ELSE dns_rdataset_additionaldata(
             rdataset, i + 1,
             IF NsOrder[i] \in rdataset.rd
             THEN glue_nsdname_cb(ctx, nsdname(NsOrder[i]),
                                  finds[nsdname(NsOrder[i])])
             ELSE ctx,
             finds)

\* newglue: the glue of the NS rdataset of node in version.
newglue(version, node, rdataset) ==
    dns_rdataset_additionaldata(
        rdataset, 1,
        [version |-> version, nodename |-> node, glue_list |-> << >>],
        GlueFinds(version)).glue_list

\* The rdatasets addglue_to_message links to the name of one glue entry.
GlueRdatasets(ge) ==
    SelectSeq(<<ge.rdataset_a, ge.sigrdataset_a,
                ge.rdataset_aaaa, ge.sigrdataset_aaaa>>,
              LAMBDA r : r # NoHeader)

\* addglue_to_message: the additional section of msg after the glue chain
\* ge was added, names with required glue put in front.
RECURSIVE addglue_to_message(_, _)
addglue_to_message(ge, msg) ==
    IF ge = << >> THEN msg
    ELSE LET name    == [name |-> Head(ge).name, list |-> GlueRdatasets(Head(ge))]
             prepend == \/ (Head(ge).rdataset_a # NoHeader
                            /\ IS_REQUIRED_GLUE(Head(ge).rdataset_a))
                        \/ (Head(ge).rdataset_aaaa # NoHeader
                            /\ IS_REQUIRED_GLUE(Head(ge).rdataset_aaaa))
         IN  addglue_to_message(Tail(ge),
                                IF prepend THEN <<name>> \o msg
                                ELSE Append(msg, name))

\* A store that does not compare: the pointer takes the new value whatever
\* it held.
rcu_set_pointer(p, old, new) == new

\* rcu_cmpxchg_pointer(&p, old, new): the value of p after it; the call
\* returns the value p had.
rcu_cmpxchg_pointer(p, old, new) == IF p = old THEN new ELSE p

\* The threads that call addglue, and a thread in no call.
Threads == {1, 2}

Idle == [pc |-> "idle", node |-> NoNode, version |-> NoVersion,
         glue |-> NullGlue]

\* The version of the given serial goes: the glue its callers cached is
\* taken off the headers on its glue_stack.
free_gluetable(list, stack, serial) ==
    [n \in DOMAIN list |->
        IF /\ serial \in DOMAIN stack
           /\ \E i \in DOMAIN stack[serial] : stack[serial][i] = n
        THEN NullGlue ELSE list[n]]

\* A function with one more point.
Put(f, x, y) == [z \in DOMAIN f \cup {x} |-> IF z = x THEN y ELSE f[z]]

\* cds_wfs_push(&version->glue_stack, &header->wfs_node): the stacks of the
\* versions after the header of node went on the one of the serial.
cds_wfs_push(stack, serial, node) ==
    Put(stack, serial,
        <<node>> \o (IF serial \in DOMAIN stack THEN stack[serial]
                     ELSE << >>))

\* A caller that pushes the header whenever it computed glue, whether its
\* compare-and-swap installed it or not.
PushAfterCas_loser(stack, old_glue, glue, serial, node) ==
    IF glue # NullGlue THEN cds_wfs_push(stack, serial, node) ELSE stack

\* What addglue does to the glue stacks after its compare-and-swap returned
\* old_glue: the winner pushes the header when it installed a glue list.
PushAfterCas(stack, old_glue, glue, serial, node) ==
    IF old_glue # NullGlue THEN stack
    ELSE IF glue # NullGlue THEN cds_wfs_push(stack, serial, node)
    ELSE stack

(***************************************************************************)
(* Versions and the writer's primitives.                                   *)
(***************************************************************************)
\* dns__qpdb_setsecure(db, version, origin_node): the zone is secure when a
\* zone KEY is active at the origin in the version.
dns__qpdb_setsecure(version) ==
    [version EXCEPT !.secure =
        ActiveOfType(tree[origin], Plain("KEY"), version.serial) # NoHeader]

\* dns__qpdb_findnode(name, create = true) in the main tree.
dns__qpdb_findnode(t, name) ==
    LET t0 == dns__qpzone_addwildcards(TreePut(t, name, GetOrCreate(t, name)),
                                       name)
    IN  IF name \in DOMAIN t THEN t
        ELSE IF dns_name_iswildcard(name)
        THEN dns__qpzone_wildcardmagic(t0, name)
        ELSE t0

\* The writer's change of one rdataset: link newheader at name, and set
\* find_callback when a delegating type was added.
WriterAdd(name, newheader) ==
    LET t1    == dns__qpdb_findnode(tree, name)
        added == dns__qpdb_add(t1[name], newheader, FALSE)
        final == IF /\ added.result = "SUCCESS" /\ EXISTS(newheader)
                    /\ delegating_type(name, newheader.type)
                 THEN [added.node EXCEPT !.find_callback = TRUE]
                 ELSE added.node
    IN  [tree |-> TreePut(t1, name, final), result |-> added.result]

\* The header subtractrdataset links: what is left of the active set, or a
\* tombstone when nothing is left.
SubtractHeader(node, type, serial, rd) ==
    LET rest == ActiveOfType(node, type, serial).rd \ rd
    IN  IF rest = {}
        THEN [NewHeader(type, serial, {}) EXCEPT !.attributes = {"NONEXISTENT"}]
        ELSE NewHeader(type, serial, rest)

\* Rollback of a node: the headers the writer linked are marked IGNORE.
rollback_node(node, serial) ==
    [node EXCEPT !.data =
        [i \in 1..Len(node.data) |->
            [j \in 1..Len(node.data[i]) |->
                IF node.data[i][j].serial = serial
                THEN [node.data[i][j] EXCEPT !.attributes = @ \cup {"IGNORE"}]
                ELSE node.data[i][j]]]]

\* The headers of a stack that are not marked IGNORE, in order.
RECURSIVE KeepLive(_)
KeepLive(stack) ==
    IF stack = << >> THEN << >>
    ELSE (IF IGNORE(Head(stack)) THEN << >> ELSE <<Head(stack)>>)
         \o KeepLive(Tail(stack))

\* The stacks of a chain that are not empty, in order.
RECURSIVE KeepStacks(_)
KeepStacks(data) ==
    IF data = << >> THEN << >>
    ELSE (IF Head(data) = << >> THEN << >> ELSE <<Head(data)>>)
         \o KeepStacks(Tail(data))

\* clean_zone_node: unlink the headers marked IGNORE.
clean_zone_node(node) ==
    [node EXCEPT !.data =
        KeepStacks([i \in 1..Len(node.data) |-> KeepLive(node.data[i])])]

\* Whether a node carries a header marked IGNORE.
Dirty(node) ==
    \E i \in 1..Len(node.data) : \E j \in 1..Len(node.data[i]) :
        IGNORE(node.data[i][j])

(***************************************************************************)
(* The runs explored.  A workload is the input of one run: whether the     *)
(* zone is a stub, the record sets of its master file, the changes a       *)
(* writer may make (none: no writer), whether a reader keeps a version     *)
(* open, and the queries clients may ask.  Labels: under the    *)
(* origin, 1 is "sub", 2 is "zone"; under them the labels are numbered in  *)
(* canonical order, 0 being "*".                                           *)
(***************************************************************************)
\* A record set of the master file, and one with a signing time (the
\* rdataset attribute RESIGN and rdataset->resign).
Rec(name, type, rd) ==
    [name |-> name, type |-> type, rd |-> rd, attributes |-> {}, resign |-> 0]

ResignRec(name, type, rd, resign) ==
    [Rec(name, type, rd) EXCEPT !.attributes = {"RESIGN"}, !.resign = resign]

Query(name, type, options) == [name |-> name, type |-> type, options |-> options]

RdQuery(name, type, covers) == [name |-> name, type |-> type, covers |-> covers]

Update(op, name, type, rd) == [op |-> op, name |-> name, type |-> type, rd |-> rd]

\* "*.sub A" and "deep.under.sub A", the zone of the wildcard examples.
WildZone ==
    [stub      |-> FALSE,
     zonefile  |-> {Rec(<<1, 0>>, Plain("A"), {"r1"}),
                    Rec(<<1, 2, 1>>, Plain("A"), {"r1"}),
                    Rec(<<1>>, Plain("A"), {"r1"}),
                    Rec(origin, Plain("NS"), {"r1"})},
     snapshot  |-> FALSE,
     glue      |-> {},
     signing   |-> {},
     updates   |-> {},
     queries   |-> {Query(<<1, 2, 2>>, "A", {}),
                    Query(<<1, 3>>, "A", {}),
                    Query(<<1, 3>>, "MX", {}),
                    Query(<<1, 3>>, "A", {"NOWILD"}),
                    Query(<<1, 2>>, "A", {}),
                    Query(<<1, 3, 1>>, "A", {})},
     rdqueries |-> {RdQuery(<<1, 0>>, "A", NoCovers)}]

\* The same two record sets with a writer that changes them and a reader
\* that keeps its version open.
MvccZone ==
    [stub      |-> FALSE,
     zonefile  |-> {Rec(<<1, 0>>, Plain("A"), {"r1"}),
                    Rec(<<1, 2, 1>>, Plain("A"), {"r1", "r2"})},
     snapshot  |-> TRUE,
     glue      |-> {},
     signing   |-> {},
     updates   |-> {Update("add", <<1, 2, 1>>, Plain("A"), {"r3"}),
                    Update("delete", <<1, 0>>, Plain("A"), {}),
                    Update("subtract", <<1, 2, 1>>, Plain("A"), {"r1"})},
     queries   |-> {Query(<<1, 2, 2>>, "A", {}),
                    Query(<<1, 2>>, "A", {})},
     rdqueries |-> {RdQuery(<<1, 2, 1>>, "A", NoCovers)}]

\* The same zone signed: a zone KEY and a signed NSEC at the origin.
SecureWildZone ==
    [stub      |-> FALSE,
     zonefile  |-> {Rec(<<1, 0>>, Plain("A"), {"r1"}),
                    Rec(<<1, 2, 1>>, Plain("A"), {"r1"}),
                    Rec(origin, Plain("KEY"), {"r1"}),
                    Rec(origin, Plain("NSEC"), {"r1"}),
                    Rec(origin, DNS_SIGTYPE("NSEC"), {"r1"})},
     snapshot  |-> FALSE,
     glue      |-> {},
     signing   |-> {},
     updates   |-> {},
     queries   |-> {Query(<<1, 2, 2>>, "A", {}),
                    Query(<<1, 3>>, "A", {}),
                    Query(<<1, 2>>, "A", {})},
     rdqueries |-> {RdQuery(origin, "NSEC", NoCovers),
                    RdQuery(origin, "RRSIG", "NSEC")}]

\* A delegation "cut.zone" (NS, DNAME with its signature, glue beneath it)
\* under "zone", which may carry a DNAME of its own, and NS at the apex.
DelegZoneFile ==
    {Rec(<<2, 1>>, Plain("NS"), {"r1"}),
     Rec(<<2, 1>>, Plain("DNAME"), {"r1"}),
     Rec(<<2, 1>>, DNS_SIGTYPE("DNAME"), {"r1"}),
     Rec(<<2, 1, 1>>, Plain("A"), {"r1"}),
     Rec(<<2>>, Plain("DNAME"), {"r1"}),
     Rec(origin, Plain("NS"), {"r1"})}

DelegQueries ==
    {Query(n, t, o) : n \in {<<2, 1, 1>>, <<2, 1, 2>>},
                      t \in {"A"}, o \in {{}, {"GLUEOK"}}}
    \cup {Query(<<2, 1>>, t, o) : t \in {"A", "DS", "NSEC", "KEY", "NS"},
                                  o \in {{}, {"GLUEOK"}}}
    \cup {Query(n, "A", {}) : n \in {origin, <<2>>, <<3>>}}

DelegZone ==
    [stub      |-> FALSE,
     zonefile  |-> DelegZoneFile,
     snapshot  |-> FALSE,
     glue      |-> {},
     signing   |-> {},
     updates   |-> {},
     queries   |-> DelegQueries,
     rdqueries |-> {RdQuery(<<2, 1>>, "DNAME", NoCovers)}]

StubZone == [DelegZone EXCEPT !.stub = TRUE]

\* An alias "www" (label 3 under the origin) with its signature, which may
\* hold an A as well, and a delegation "cut.zone" with a KEY at the cut and
\* an alias beneath it.
CnameZone ==
    [stub      |-> FALSE,
     zonefile  |-> {Rec(<<3>>, Plain("CNAME"), {"r1"}),
                    Rec(<<3>>, DNS_SIGTYPE("CNAME"), {"r1"}),
                    Rec(<<3>>, Plain("A"), {"r1"}),
                    Rec(<<2, 1>>, Plain("NS"), {"r1"}),
                    Rec(<<2, 1>>, Plain("KEY"), {"r1"}),
                    Rec(<<2, 1, 1>>, Plain("CNAME"), {"r1"})},
     snapshot  |-> FALSE,
     glue      |-> {},
     signing   |-> {},
     updates   |-> {},
     queries   |-> {Query(<<3>>, t, {}) :
                       t \in {"A", "CNAME", "ANY", "KEY", "NSEC", "MX"}}
                    \cup {Query(<<2, 1>>, t, o) :
                             t \in {"KEY", "ANY", "NS", "A"},
                             o \in {{}, {"GLUEOK"}}}
                    \cup {Query(<<2, 1, 1>>, t, o) :
                             t \in {"CNAME", "A"}, o \in {{}, {"GLUEOK"}}},
     rdqueries |-> {RdQuery(<<3>>, "CNAME", NoCovers)}]

\* Signatures with signing times, two of them on nodes of one lock
\* bucket and one, whose time is never set again, in the bucket before,
\* and a record set without a signing time in the bucket after.  No name
\* holds two record sets of one type pair, and no writer changes the zone.
ResignTimes == {0, 1, 4, 5}

SigningZone ==
    [stub      |-> FALSE,
     zonefile  |-> {ResignRec(<<1>>, DNS_SIGTYPE("A"), {"r1"}, 5),
                    ResignRec(<<4>>, DNS_SIGTYPE("A"), {"r1"}, 4),
                    ResignRec(<<3>>, DNS_SIGTYPE("A"), {"r1"}, 5),
                    Rec(<<2>>, DNS_SIGTYPE("A"), {"r1"})},
     snapshot  |-> FALSE,
     glue      |-> {},
     signing   |-> {HeaderRef(n, DNS_SIGTYPE("A")) :
                       n \in {<<1>>, <<2>>, <<4>>}},
     updates   |-> {},
     queries   |-> {},
     rdqueries |-> {}]

\* A delegation "cut.zone" with two name servers beneath itself, one with an
\* A and one with an AAAA, and a third that is not in the zone.  The writer
\* replaces the A.
GlueNames == {<<2, 1>>}

GlueZone ==
    [stub      |-> FALSE,
     zonefile  |-> {Rec(<<2, 1>>, Plain("NS"), {"ns1", "ns2", "ns3"}),
                    Rec(<<2, 1, 4>>, Plain("A"), {"r1"}),
                    Rec(<<2, 1, 5>>, Plain("AAAA"), {"r1"})},
     snapshot  |-> TRUE,
     glue      |-> GlueNames,
     signing   |-> {},
     updates   |-> {Update("add", <<2, 1, 4>>, Plain("A"), {"r2"})},
     queries   |-> {},
     rdqueries |-> {}]

\* Three signatures with signing times, one in each lock bucket: the one
\* in the first bucket is the latest, and the times of the two others are
\* taken away and set again while getsigningtime runs.
ScanTimes == {0, 4}

ScanZone ==
    [stub      |-> FALSE,
     zonefile  |-> {ResignRec(<<3>>, DNS_SIGTYPE("A"), {"r1"}, 5),
                    ResignRec(<<1>>, DNS_SIGTYPE("A"), {"r1"}, 4),
                    ResignRec(<<2>>, DNS_SIGTYPE("A"), {"r1"}, 4)},
     snapshot  |-> FALSE,
     glue      |-> {},
     signing   |-> {HeaderRef(n, DNS_SIGTYPE("A")) : n \in {<<1>>, <<2>>}},
     updates   |-> {},
     queries   |-> {},
     rdqueries |-> {}]

\* Two signatures with signing times in one lock bucket, and a writer
\* that takes them off the heap to sign them again.
ResignZone ==
    [stub      |-> FALSE,
     zonefile  |-> {ResignRec(<<1>>, DNS_SIGTYPE("A"), {"r1"}, 5),
                    ResignRec(<<4>>, DNS_SIGTYPE("A"), {"r1"}, 4)},
     snapshot  |-> FALSE,
     glue      |-> {},
     signing   |-> {HeaderRef(n, DNS_SIGTYPE("A")) : n \in {<<1>>, <<4>>}},
     updates   |-> {Update("add", <<1>>, DNS_SIGTYPE("A"), {"r2"})},
     queries   |-> {},
     rdqueries |-> {}]

\* A master file for the loader alone: a name with a wildcard label inside
\* it, a wildcard NS (which the loader rejects), an NSEC3 and an RRSIG(NSEC3)
\* at names with wildcard labels, a name with an NSEC and an A, loaded in
\* either order, and a name with an NSEC3 alone that has a wildcard child.
LoaderZone ==
    [stub      |-> FALSE,
     zonefile  |-> {Rec(<<1, 0, 3>>, Plain("A"), {"r1"}),
                    Rec(<<2, 0>>, Plain("NS"), {"r1"}),
                    Rec(<<4, 0, 3>>, Plain("NSEC3"), {"r1"}),
                    Rec(<<1, 0>>, DNS_SIGTYPE("NSEC3"), {"r1"}),
                    Rec(<<3>>, Plain("NSEC"), {"r1"}),
                    Rec(<<3>>, Plain("A"), {"r1"}),
                    Rec(<<5>>, Plain("NSEC3"), {"r1"}),
                    Rec(<<5, 0>>, Plain("A"), {"r1"})},
     snapshot  |-> FALSE,
     glue      |-> {},
     signing   |-> {},
     updates   |-> {},
     queries   |-> {},
     rdqueries |-> {}]

\* A master file with the records the loader refuses: an SOA below the
\* origin, an NS at a wildcard name with a wildcard label inside it, an
\* NSEC3 at a wildcard name; with them an SOA at the origin, and two
\* rdatasets of one type at one name.
RejectZone ==
    [stub      |-> FALSE,
     zonefile  |-> {Rec(origin, Plain("SOA"), {"r1"}),
                    Rec(<<3>>, Plain("SOA"), {"r1"}),
                    Rec(<<2, 0, 0>>, Plain("NS"), {"r1"}),
                    Rec(<<5, 0>>, Plain("NSEC3"), {"r1"}),
                    Rec(<<3>>, Plain("A"), {"r1"}),
                    Rec(<<3>>, Plain("A"), {"r2"})},
     snapshot  |-> FALSE,
     glue      |-> {},
     signing   |-> {},
     updates   |-> {},
     queries   |-> {},
     rdqueries |-> {}]

\* A master file with NSECs at names that wildcards touch: a name with an
\* NSEC that has a wildcard child, and a name with a wildcard label inside
\* it that has an NSEC and an A.
NsecWildZone ==
    [stub      |-> FALSE,
     zonefile  |-> {Rec(<<3>>, Plain("NSEC"), {"r1"}),
                    Rec(<<3, 0>>, Plain("A"), {"r1"}),
                    Rec(<<1, 0, 4>>, Plain("NSEC"), {"r1"}),
                    Rec(<<1, 0, 4>>, Plain("A"), {"r1"})},
     snapshot  |-> FALSE,
     glue      |-> {},
     signing   |-> {},
     updates   |-> {},
     queries   |-> {},
     rdqueries |-> {}]

\* A wildcard under sub and a name with data between it and the name
\* asked for, which a writer adds to.
MaskZone ==
    [stub      |-> FALSE,
     zonefile  |-> {Rec(<<1, 0>>, Plain("A"), {"r1"}),
                    Rec(<<1, 2>>, Plain("A"), {"r1"})},
     snapshot  |-> FALSE,
     glue      |-> {},
     signing   |-> {},
     updates   |-> {Update("add", <<1, 2>>, Plain("A"), {"r2"})},
     queries   |-> {Query(<<1, 2, 2>>, "A", {})},
     rdqueries |-> {}]

\* A signed zone, its origin with a signed NSEC, and a wildcard with an A
\* and no NSEC, asked for a type that no name holds: at the origin, at the
\* wildcard name itself, and at a name the wildcard matches.  A writer
\* adds to the A of the wildcard.
SecureNxZone ==
    [stub      |-> FALSE,
     zonefile  |-> {Rec(origin, Plain("KEY"), {"r1"}),
                    Rec(origin, Plain("NSEC"), {"r1"}),
                    Rec(origin, DNS_SIGTYPE("NSEC"), {"r1"}),
                    Rec(<<1, 0>>, Plain("A"), {"r1"})},
     snapshot  |-> FALSE,
     glue      |-> {},
     signing   |-> {},
     updates   |-> {Update("add", <<1, 0>>, Plain("A"), {"r2"})},
     queries   |-> {Query(origin, "MX", {}),
                    Query(<<1, 0>>, "MX", {}),
                    Query(<<1, 3>>, "MX", {})},
     rdqueries |-> {}]

\* A zone with two NSEC3 records, the first of them signed, asked for the
\* NSEC3 that covers a hash before the first and one between the two, and
\* for the second, whose parameters are not those of the version.
Nsec3Zone ==
    [stub      |-> FALSE,
     zonefile  |-> {Rec(origin, Plain("KEY"), {"r1"}),
                    Rec(<<2>>, Plain("NSEC3"), {"r1"}),
                    Rec(<<2>>, DNS_SIGTYPE("NSEC3"), {"r1"}),
                    Rec(<<4>>, Plain("NSEC3"), {"r1"})},
     snapshot  |-> FALSE,
     glue      |-> {},
     signing   |-> {},
     updates   |-> {},
     queries   |-> {Query(<<1>>, "NSEC3", {"FORCENSEC3"}),
                    Query(<<3>>, "NSEC3", {"FORCENSEC3"}),
                    Query(<<4>>, "NSEC3", {"FORCENSEC3"})},
     rdqueries |-> {}]

Workloads ==
    {WildZone, MvccZone, SecureWildZone, DelegZone, StubZone, CnameZone,
     SigningZone, GlueZone, LoaderZone, RejectZone, MaskZone, SecureNxZone,
     Nsec3Zone, NsecWildZone}

(***************************************************************************)
(* The database as a state machine.                                        *)
(***************************************************************************)
\* The writer opens versions up to this serial.
MaxSerial == 3

Call(op, args, version, answer) ==
    [op |-> op, args |-> args, version |-> version, answer |-> answer]

NoCall == Call("none", << >>, NoVersion, "NONE")

\* The database after its creation: the origin node in the main and in the
\* NSEC3 tree, version 1 current, nothing loaded.
\* No getsigningtime call in progress.
NoScan ==
    [pc |-> "idle", i |-> 0, st |-> NewSigningScan, wasmin |-> {},
     answer |-> NoRef]

Created(W) ==
    /\ workload \in W
    /\ attributes = {}
    /\ tree = (origin :> dns_qpdata_create)
    /\ nsec = {}
    /\ nsec3 = (origin :> [dns_qpdata_create EXCEPT !.nsec = "NSEC3"])
    /\ current_version = [NoVersion EXCEPT !.serial = 1]
    /\ future_version = NoVersion
    /\ next_serial = 2
    /\ open_version = NoVersion
    /\ heaps = [b \in 0..(node_lock_count - 1) |-> << >>]
    /\ glue_list = [n \in GlueNames |-> NullGlue]
    /\ glue_stack = << >>
    /\ threads = [th \in Threads |-> Idle]
    /\ installs = [n \in GlueNames |-> 0]
    /\ rendered = << >>
    /\ observed = NoCall
    /\ sigscan = NoScan
    /\ lastcall = Call("create", << >>, NoVersion, "SUCCESS")

Init == Created(Workloads)

beginload ==
    /\ attributes = {}
    /\ attributes' = {"LOADING"}
    /\ lastcall' = Call("beginload", << >>, NoVersion, "SUCCESS")
    /\ UNCHANGED <<gluevars, workload, sigscan, heaps, tree, nsec, nsec3, current_version,
                   future_version, next_serial, open_version,
                   observed>>

loading_addrdataset ==
    /\ "LOADING" \in attributes
    /\ \E r \in workload.zonefile :
          LET loaded == LoadRecord(r)
          IN  /\ tree' = loaded.tree
              /\ heaps' = loaded.heaps
              /\ nsec' = loaded.nsec
              /\ nsec3' = loaded.nsec3
              /\ lastcall' = Call("loading_addrdataset", r, NoVersion,
                                  loaded.result)
    /\ UNCHANGED <<gluevars, workload, sigscan, attributes, current_version, future_version,
                   next_serial, open_version,
                   observed>>

\* An endload that sets LOADED and forgets to clear LOADING.
endload_keeploading ==
    /\ "LOADING" \in attributes
    /\ "LOADED" \notin attributes
    /\ attributes' = attributes \cup {"LOADED"}
    /\ current_version' = dns__qpdb_setsecure(current_version)
    /\ lastcall' = Call("endload", << >>, NoVersion, "SUCCESS")
    /\ UNCHANGED <<gluevars, workload, sigscan, heaps, tree, nsec, nsec3, future_version, next_serial,
                   open_version,
                   observed>>

endload ==
    /\ "LOADING" \in attributes
    /\ "LOADED" \notin attributes
    /\ attributes' = (attributes \ {"LOADING"}) \cup {"LOADED"}
    /\ current_version' = dns__qpdb_setsecure(current_version)
    /\ lastcall' = Call("endload", << >>, NoVersion, "SUCCESS")
    /\ UNCHANGED <<gluevars, workload, sigscan, heaps, tree, nsec, nsec3, future_version, next_serial,
                   open_version,
                   observed>>

\* A thread is in an addglue call with the version of this serial, which
\* it holds a reference to.
InCall(serial) ==
    \E th \in Threads :
        threads[th].pc # "idle" /\ threads[th].version.serial = serial

\* The last reference to the version of this serial goes: the glue cached
\* by its callers is freed.
cleanup_version(serial) ==
    /\ glue_list' = free_gluetable(glue_list, glue_stack, serial)
    /\ glue_stack' = [s \in DOMAIN glue_stack \ {serial} |-> glue_stack[s]]
    /\ installs' = [n \in DOMAIN installs |->
                       IF free_gluetable(glue_list, glue_stack, serial)[n]
                              = glue_list[n]
                       THEN installs[n] ELSE 0]

\* A reader attaches to the current version and keeps it open.
currentversion ==
    /\ "LOADED" \in attributes
    /\ workload.snapshot
    /\ open_version = NoVersion
    /\ open_version' = current_version
    /\ lastcall' = Call("currentversion", << >>, current_version, "SUCCESS")
    /\ UNCHANGED <<gluevars, workload, sigscan, heaps, attributes, tree, nsec, nsec3, current_version,
                   future_version, next_serial,
                   observed>>

\* The reader closes its version.
closeversion_reader ==
    /\ open_version # NoVersion
    /\ ~InCall(open_version.serial)
    /\ open_version' = NoVersion
    /\ observed' = NoCall
    /\ lastcall' = Call("closeversion", << >>, open_version, "SUCCESS")
    /\ IF open_version.serial # current_version.serial
       THEN cleanup_version(open_version.serial)
       ELSE UNCHANGED <<glue_list, glue_stack, installs>>
    /\ UNCHANGED <<threads, rendered, workload, sigscan, heaps, attributes, tree, nsec, nsec3, current_version,
                   future_version, next_serial>>

\* The writer opens a new version.
newversion ==
    /\ "LOADED" \in attributes
    /\ workload.updates # {}
    /\ future_version = NoVersion
    /\ next_serial <= MaxSerial
    /\ future_version' = [current_version EXCEPT !.serial = next_serial,
                                                 !.writer = TRUE]
    /\ next_serial' = next_serial + 1
    /\ lastcall' = Call("newversion", << >>, future_version', "SUCCESS")
    /\ UNCHANGED <<gluevars, workload, sigscan, heaps, attributes, tree, nsec, nsec3, current_version,
                   open_version,
                   observed>>

\* The writer adds, deletes or subtracts an rdataset in its open version.
addrdataset ==
    /\ future_version # NoVersion
    /\ \E u \in workload.updates :
          /\ u.op = "add"
          /\ LET w == WriterAdd(u.name,
                                NewHeader(u.type, future_version.serial, u.rd))
             IN  /\ tree' = w.tree
                 /\ lastcall' = Call("addrdataset", u, future_version, w.result)
    /\ UNCHANGED <<gluevars, workload, sigscan, heaps, attributes, nsec, nsec3, current_version,
                   future_version, next_serial, open_version,
                   observed>>

deleterdataset ==
    /\ future_version # NoVersion
    /\ \E u \in workload.updates :
          /\ u.op = "delete"
          /\ u.name \in DOMAIN tree
          /\ LET tomb == [NewHeader(u.type, future_version.serial, {})
                             EXCEPT !.attributes = {"NONEXISTENT"}]
                 w    == WriterAdd(u.name, tomb)
             IN  /\ tree' = w.tree
                 /\ lastcall' = Call("deleterdataset", u, future_version,
                                     w.result)
    /\ UNCHANGED <<gluevars, workload, sigscan, heaps, attributes, nsec, nsec3, current_version,
                   future_version, next_serial, open_version,
                   observed>>

subtractrdataset ==
    /\ future_version # NoVersion
    /\ \E u \in workload.updates :
          /\ u.op = "subtract"
          /\ u.name \in DOMAIN tree
          /\ ActiveOfType(tree[u.name], u.type, future_version.serial)
                 # NoHeader
          /\ LET w == WriterAdd(u.name,
                                SubtractHeader(tree[u.name], u.type,
                                               future_version.serial, u.rd))
             IN  /\ tree' = w.tree
                 /\ lastcall' = Call("subtractrdataset", u, future_version,
                                     w.result)
    /\ UNCHANGED <<gluevars, workload, sigscan, heaps, attributes, nsec, nsec3, current_version,
                   future_version, next_serial, open_version,
                   observed>>

\* closeversion(commit = true) by the writer: its serial becomes current.
closeversion_commit ==
    /\ future_version # NoVersion
    /\ ~InCall(current_version.serial)
    /\ current_version' = [future_version EXCEPT !.writer = FALSE]
    /\ future_version' = NoVersion
    /\ lastcall' = Call("closeversion", "commit", future_version, "SUCCESS")
    /\ IF open_version.serial # current_version.serial
       THEN cleanup_version(current_version.serial)
       ELSE UNCHANGED <<glue_list, glue_stack, installs>>
    /\ UNCHANGED <<threads, rendered, workload, sigscan, heaps, attributes, tree, nsec, nsec3, next_serial,
                   open_version,
                   observed>>

\* closeversion(commit = false) by the writer: its headers are hidden.
closeversion_rollback ==
    /\ future_version # NoVersion
    /\ tree' = [n \in DOMAIN tree |->
                   rollback_node(tree[n], future_version.serial)]
    /\ future_version' = NoVersion
    /\ lastcall' = Call("closeversion", "rollback", future_version, "SUCCESS")
    /\ UNCHANGED <<gluevars, workload, sigscan, heaps, attributes, nsec, nsec3, current_version,
                   next_serial, open_version,
                   observed>>

\* The last reference to a node with hidden headers goes: they are unlinked.
dns__qpdb_decref ==
    /\ \E n \in DOMAIN tree :
          /\ Dirty(tree[n])
          /\ tree' = TreePut(tree, n, clean_zone_node(tree[n]))
          /\ lastcall' = Call("decref", n, NoVersion, "SUCCESS")
    /\ UNCHANGED <<gluevars, workload, sigscan, heaps, attributes, nsec, nsec3, current_version,
                   future_version, next_serial, open_version,
                   observed>>

\* The versions a client may pass to a query: none (the current version is
\* attached for the call) or the version its reader holds open.
QueryVersions ==
    {current_version} \cup (IF open_version = NoVersion THEN {}
                            ELSE {open_version})

\* The version a client passes to zone_find: the one its reader holds open,
\* and none (NULL) when it holds no reader.
FindVersions ==
    IF open_version = NoVersion THEN {NoVersion} ELSE {open_version}

\* A zone_find call.  The reader remembers the first query it makes with its
\* open version.
zone_find_call ==
    /\ "LOADED" \in attributes
    /\ \E q \in workload.queries : \E v \in FindVersions :
          /\ lastcall' = Call("zone_find", q,
                              IF v = NoVersion THEN current_version ELSE v,
                              zone_find(q.name, v, q.type, q.options))
          /\ observed' = IF v # NoVersion /\ observed = NoCall
                         THEN lastcall' ELSE observed
    /\ UNCHANGED <<gluevars, workload, sigscan, heaps, attributes, tree, nsec, nsec3, current_version,
                   future_version, next_serial, open_version>>

zone_findrdataset_call ==
    /\ "LOADED" \in attributes
    /\ \E q \in workload.rdqueries : \E v \in QueryVersions :
          /\ q.name \in DOMAIN tree
          /\ lastcall' = Call("zone_findrdataset", q, v,
                              zone_findrdataset(tree[q.name], v, q.type,
                                                q.covers))
          /\ observed' = IF v = open_version /\ observed = NoCall
                         THEN lastcall' ELSE observed
    /\ UNCHANGED <<gluevars, workload, sigscan, heaps, attributes, tree, nsec, nsec3, current_version,
                   future_version, next_serial, open_version>>

\* A setsigningtime call on an rdataset bound to a header of the zone.
SetSigningTime(ref, resign, set) ==
    /\ tree' = set.tree
    /\ heaps' = set.heaps
    /\ lastcall' = Call("setsigningtime",
                        [name |-> ref.name, type |-> ref.type,
                         resign |-> resign],
                        NoVersion,
                        [result    |-> "SUCCESS",
                         heapop    |-> set.heapop,
                         oldheader |-> HeaderOf(tree, ref)])

setsigningtime_call ==
    /\ "LOADED" \in attributes
    /\ \E ref \in workload.signing : \E resign \in ResignTimes :
          /\ ref.name \in DOMAIN tree
          /\ StackIndex(tree[ref.name].data, ref.type) # 0
          /\ SetSigningTime(ref, resign,
                            setsigningtime(tree, heaps, ref, resign))
    /\ UNCHANGED <<gluevars, workload, sigscan, attributes, nsec, nsec3, current_version,
                   future_version, next_serial, open_version, observed>>

getsigningtime_call ==
    /\ "LOADED" \in attributes
    /\ workload.signing # {}
    /\ lastcall' = Call("getsigningtime", << >>, NoVersion,
                        getsigningtime(tree, heaps))
    /\ UNCHANGED <<gluevars, workload, sigscan, attributes, tree, nsec, nsec3, current_version,
                   future_version, next_serial, open_version, heaps,
                   observed>>

\* The additional section of a fresh message after addglue added glue.
Additional(glue) ==
    IF glue = EMPTY THEN << >> ELSE addglue_to_message(glue.list, << >>)

\* The first additional section rendered for a header and a version.
Remember(node, version, msg) ==
    IF <<node, version.serial>> \in DOMAIN rendered THEN rendered
    ELSE Put(rendered, <<node, version.serial>>, msg)

\* The glue list a thread allocated: NULL when newglue found none.
LocalGlue(th, found) ==
    IF found = << >> THEN NullGlue ELSE [list |-> found, owner |-> th]

\* The thread found glue_list null and computed the list local.
addglue_computed(th, node, version, local) ==
    /\ threads' = [threads EXCEPT ![th] =
                      [pc |-> "cas", node |-> node, version |-> version,
                       glue |-> local]]
    /\ lastcall' = Call("newglue", [node |-> node, thread |-> th], version,
                        local)
    /\ UNCHANGED rendered

\* The thread found glue cached: it adds msg to the message.
addglue_cached(th, node, version, glue, msg) ==
    /\ lastcall' = Call("addglue", [node |-> node, thread |-> th], version,
                        [result     |-> "SUCCESS",
                         additional |-> msg,
                         computed   |-> FALSE,
                         local      |-> NullGlue,
                         old_glue   |-> glue,
                         glue       |-> glue,
                         freed      |-> NullGlue])
    /\ rendered' = Remember(node, version, msg)
    /\ UNCHANGED threads

\* addglue up to its compare-and-swap: a thread reads glue_list; it adds
\* the glue cached there to the message, or it computes the glue.  The
\* threads are alike: the second one calls while the first is in a call.
addglue_load ==
    /\ "LOADED" \in attributes
    /\ ~IS_STUB
    /\ \E th \in Threads : \E node \in workload.glue :
       \E version \in QueryVersions :
          /\ threads[th].pc = "idle"
          /\ (th = 1 \/ threads[1].pc # "idle")
          /\ node \in DOMAIN tree
          /\ ActiveOfType(tree[node], Plain("NS"), version.serial) # NoHeader
          /\ IF glue_list[node] = NullGlue
             THEN addglue_computed(
                      th, node, version,
                      LocalGlue(th, newglue(version, node,
                                            ActiveOfType(tree[node],
                                                         Plain("NS"),
                                                         version.serial))))
             ELSE addglue_cached(th, node, version, glue_list[node],
                                 Additional(glue_list[node]))
    /\ UNCHANGED <<glue_list, glue_stack, installs, workload, sigscan, attributes, tree,
                   nsec, nsec3, current_version, future_version, next_serial,
                   open_version, heaps, observed>>

\* addglue from its compare-and-swap on: the thread caches its glue, or the
\* sentinel when it found none, unless another was faster; the loser frees
\* its glue and takes the winner's; the glue goes to the message.
addglue_cas ==
    /\ \E th \in Threads :
          /\ threads[th].pc = "cas"
          /\ LET node     == threads[th].node
                 version  == threads[th].version
                 local    == threads[th].glue
                 old_glue == glue_list[node]
                 won      == old_glue = NullGlue
                 glue     == IF won THEN local ELSE old_glue
                 msg      == IF glue = NullGlue THEN << >>
                             ELSE Additional(glue)
             IN  /\ glue_list' =
                       [glue_list EXCEPT ![node] =
                           rcu_cmpxchg_pointer(@, NullGlue,
                                               IF local # NullGlue
                                               THEN local ELSE EMPTY)]
                 /\ glue_stack' = PushAfterCas(glue_stack, old_glue, local,
                                                version.serial, node)
                 /\ installs' = [installs EXCEPT ![node] =
                                    IF glue_list'[node] # old_glue
                                    THEN IF won THEN 1 ELSE @ + 1
                                    ELSE @]
                 /\ threads' = [threads EXCEPT ![th] = Idle]
                 /\ rendered' = Remember(node, version, msg)
                 /\ lastcall' =
                       Call("addglue", [node |-> node, thread |-> th], version,
                            [result     |-> "SUCCESS",
                             additional |-> msg,
                             computed   |-> TRUE,
                             local      |-> local,
                             old_glue   |-> old_glue,
                             glue       |-> glue,
                             freed      |-> IF won THEN NullGlue ELSE local])
    /\ UNCHANGED <<workload, sigscan, attributes, tree, nsec, nsec3, current_version,
                   future_version, next_serial, open_version, heaps, observed>>

Next ==
    \/ addglue_load
    \/ addglue_cas
    \/ beginload
    \/ loading_addrdataset
    \/ endload
    \/ currentversion
    \/ closeversion_reader
    \/ newversion
    \/ addrdataset
    \/ deleterdataset
    \/ subtractrdataset
    \/ closeversion_commit
    \/ closeversion_rollback
    \/ dns__qpdb_decref
    \/ zone_find_call
    \/ zone_findrdataset_call
    \/ setsigningtime_call
    \/ getsigningtime_call

Spec == Init /\ [][Next]_vars

(***************************************************************************)
(* getsigningtime bucket by bucket, beside setsigningtime calls.           *)
(***************************************************************************)
\* The headers with the earliest signing time of all heaps; NoRef when
\* every heap is empty.
EarliestNow(t, hs) ==
    LET tops == {isc_heap_element(hs[b]) : b \in DOMAIN hs} \ {NoRef}
    IN  IF tops = {} THEN {NoRef}
        ELSE {r \in tops :
                 \A q \in tops : ~sooner(HeaderOf(t, q), HeaderOf(t, r))}

\* The getsigningtime call in progress holds the lock of the bucket: the
\* one of the earliest header it found so far.
ScanHolds(b) ==
    /\ sigscan.pc = "loop"
    /\ sigscan.st.header # NoRef
    /\ sigscan.st.locknum = b

\* The bucket-independent rest of the database, which these calls leave
\* alone.
ScanFrame ==
    UNCHANGED <<gluevars, workload, attributes, nsec, nsec3, current_version,
                future_version, next_serial, open_version, observed>>

\* getsigningtime is called: it takes the tree lock.  wasmin collects the
\* headers that are the earliest of all heaps at some instant of the call.
getsigningtime_enter ==
    /\ "LOADED" \in attributes
    /\ sigscan.pc \in {"idle", "done"}
    /\ sigscan' = [pc |-> "loop", i |-> 0,
                   st |-> TREE_RDLOCK(NewSigningScan),
                   wasmin |-> EarliestNow(tree, heaps), answer |-> NoRef]
    /\ lastcall' = Call("getsigningtime_enter", << >>, NoVersion, "NONE")
    /\ UNCHANGED <<tree, heaps>>
    /\ ScanFrame

\* One turn of the loop of getsigningtime, under the lock of bucket i.
getsigningtime_bucket ==
    /\ sigscan.pc = "loop"
    /\ sigscan.i < node_lock_count
    /\ sigscan' = [sigscan EXCEPT
                      !.i = @ + 1,
                      !.st = SigningBucket(tree,
                                           NODE_RDLOCK(sigscan.st, sigscan.i),
                                           sigscan.i,
                                           isc_heap_element(heaps[sigscan.i]))]
    /\ lastcall' = Call("getsigningtime_bucket", [i |-> sigscan.i], NoVersion,
                        "NONE")
    /\ UNCHANGED <<tree, heaps>>
    /\ ScanFrame

\* getsigningtime binds the header it found and returns.
getsigningtime_leave ==
    /\ sigscan.pc = "loop"
    /\ sigscan.i = node_lock_count
    /\ sigscan' = [sigscan EXCEPT !.pc = "done", !.answer = sigscan.st.header]
    /\ lastcall' = Call("getsigningtime", << >>, NoVersion,
                        SigningResult(tree, sigscan.st))
    /\ UNCHANGED <<tree, heaps>>
    /\ ScanFrame

\* A setsigningtime call of another thread: NODE_WRLOCK waits while the
\* getsigningtime call holds the lock of the bucket of the header.
setsigningtime_beside ==
    /\ "LOADED" \in attributes
    /\ \E ref \in workload.signing : \E resign \in ScanTimes :
          /\ ref.name \in DOMAIN tree
          /\ StackIndex(tree[ref.name].data, ref.type) # 0
          /\ ~ScanHolds(locknum(ref.name))
          /\ SetSigningTime(ref, resign,
                            setsigningtime(tree, heaps, ref, resign))
    /\ sigscan' = IF sigscan.pc = "loop"
                  THEN [sigscan EXCEPT
                           !.wasmin = @ \cup EarliestNow(tree', heaps')]
                  ELSE sigscan
    /\ ScanFrame

NextScan ==
    \/ beginload
    \/ loading_addrdataset
    \/ endload
    \/ getsigningtime_enter
    \/ getsigningtime_bucket
    \/ getsigningtime_leave
    \/ setsigningtime_beside

SpecScan == Created({ScanZone}) /\ [][NextScan]_vars

(***************************************************************************)
(* Headers taken off the resign heap by a writer, and setsigningtime.      *)
(***************************************************************************)
\* The INSIST that a setsigningtime call on the header fails, "" when it
\* fails none: INSIST(RESIGN(header)) of setsigningtime for a header in a
\* heap, and the two of dns__qpzone_resigninsert for a header it inserts.
FailedInsist(header, resign) ==
    IF header.heap_index # 0
    THEN (IF RESIGN(header) THEN "" ELSE "RESIGN(header)")
    ELSE IF resign = 0 THEN ""
    ELSE IF ISC_LINK_LINKED(header)
    THEN "!ISC_LINK_LINKED(newheader, link)"
    ELSE ""

ResignFrame ==
    UNCHANGED <<gluevars, workload, sigscan, nsec, nsec3, current_version,
                future_version, next_serial, open_version, observed>>

\* dns__qpzone_resigndelete is called for a header, with no version or
\* with the version of the writer.
resigndelete_call ==
    /\ "LOADED" \in attributes
    /\ \E ref \in workload.signing :
       \E version \in {NoVersion, future_version} :
          /\ ref.name \in DOMAIN tree
          /\ StackIndex(tree[ref.name].data, ref.type) # 0
          /\ LET del == dns__qpzone_resigndelete(tree, heaps, version, ref)
             IN  /\ tree' = del.tree
                 /\ heaps' = del.heaps
                 /\ lastcall' = Call("resigndelete", ref, version, "NONE")
    /\ UNCHANGED attributes
    /\ ResignFrame

\* setsigningtime is called for a header.  An INSIST that fails ends the
\* process: the call is the last one, which ABORTED in attributes stands
\* for.
setsigningtime_resigned ==
    /\ "LOADED" \in attributes
    /\ \E ref \in workload.signing : \E resign \in ScanTimes :
          /\ ref.name \in DOMAIN tree
          /\ StackIndex(tree[ref.name].data, ref.type) # 0
          /\ LET failed == FailedInsist(HeaderOf(tree, ref), resign)
                 set    == setsigningtime(tree, heaps, ref, resign)
             IN  IF failed = ""
                 THEN /\ SetSigningTime(ref, resign, set)
                      /\ UNCHANGED attributes
                 ELSE /\ lastcall' = Call("setsigningtime",
                                          [name |-> ref.name,
                                           type |-> ref.type,
                                           resign |-> resign],
                                          NoVersion,
                                          [result    |-> failed,
                                           heapop    |-> "none",
                                           oldheader |-> HeaderOf(tree, ref)])
                      /\ attributes' = {"ABORTED"}
                      /\ UNCHANGED <<tree, heaps>>
    /\ ResignFrame

NextResign ==
    \/ beginload
    \/ loading_addrdataset
    \/ endload
    \/ newversion
    \/ resigndelete_call
    \/ setsigningtime_resigned

SpecResign == Created({ResignZone}) /\ [][NextResign]_vars

(***************************************************************************)
(* Properties.                                                             *)
(***************************************************************************)
\* What a caller of zone_find compares: the result code and the rdatasets
\* bound.
FindOutcome(answer) == <<answer.result, answer.rdataset, answer.sigrdataset>>

\* C1: while a reader keeps a version open, a zone_find with that version
\* gives the result code and the bound rdatasets its first call gave, whatever
\* headers the writer has linked since, all of them of a greater serial.
C1_FindIgnoresNewerHeaders ==
    observed.op = "zone_find" =>
        FindOutcome(zone_find(observed.args.name, open_version,
                              observed.args.type, observed.args.options))
        = FindOutcome(observed.answer)

\* The header of a type pair a reader at a serial is to see at a node: on the
\* stack of the type pair, the first header down the stack with
\* serial <= the reader's and IGNORE clear, unless it is a tombstone.
Visible(stack, serial) ==
    {j \in 1..Len(stack) :
        stack[j].serial <= serial /\ "IGNORE" \notin stack[j].attributes}

VisibleHeaders(node, typepair, serial) ==
    UNION {LET stack == node.data[i]
           IN  {stack[j] : j \in
                   {k \in Visible(stack, serial) :
                       /\ \A m \in Visible(stack, serial) : k <= m
                       /\ "NONEXISTENT" \notin stack[k].attributes}}
           : i \in {n \in 1..Len(node.data) :
                       node.data[n][1].type = typepair}}

\* C2: zone_findrdataset returns SUCCESS bound to the header a reader of the
\* version is to see for the type pair, and NOTFOUND with nothing bound when
\* there is no such header.
C2_FindRdatasetFirstVisible ==
    lastcall.op = "zone_findrdataset" =>
        LET q  == lastcall.args
            hs == VisibleHeaders(tree[q.name],
                                 DNS_TYPEPAIR_VALUE(q.type, q.covers),
                                 lastcall.version.serial)
        IN  IF hs # {}
            THEN /\ lastcall.answer.result = "SUCCESS"
                 /\ lastcall.answer.rdataset \in hs
            ELSE /\ lastcall.answer.result = "NOTFOUND"
                 /\ lastcall.answer.rdataset = NoHeader
                 /\ lastcall.answer.sigrdataset = NoHeader

\* A reader found a header beneath newer or hidden ones.
C2_WalkedDown ==
    /\ lastcall.op = "zone_findrdataset"
    /\ lastcall.answer.result = "SUCCESS"
    /\ \E i \in 1..Len(tree[lastcall.args.name].data) :
          LET stack == tree[lastcall.args.name].data[i]
          IN  /\ Len(stack) > 1
              /\ stack[1] # lastcall.answer.rdataset
              /\ \E j \in 2..Len(stack) : stack[j] = lastcall.answer.rdataset

\* C3: while a reader keeps a version open, zone_findrdataset at a node for
\* a type pair with that version returns the header its first call returned,
\* whatever the writer has added, subtracted, deleted, committed or rolled
\* back since.
C3_FindRdatasetStable ==
    observed.op = "zone_findrdataset" =>
        LET q == observed.args
            a == zone_findrdataset(tree[q.name], open_version, q.type, q.covers)
        IN  /\ a.result = observed.answer.result
            /\ a.rdataset = observed.answer.rdataset

\* The reader found its header again after the writer changed that rdataset
\* and committed.
C3_AfterCommit ==
    /\ observed.op = "zone_findrdataset"
    /\ observed.answer.result = "SUCCESS"
    /\ lastcall.op = "zone_findrdataset"
    /\ lastcall.args = observed.args
    /\ lastcall.version = open_version
    /\ current_version.serial > open_version.serial
    /\ \E i \in 1..Len(tree[observed.args.name].data) :
          LET stack == tree[observed.args.name].data[i]
          IN  /\ stack[1].type = observed.answer.rdataset.type
              /\ stack[1].serial > open_version.serial

(***************************************************************************)
(* Zone cuts.  The properties below read the last zone_find call.          *)
(***************************************************************************)
\* name lies strictly beneath n.
Beneath(name, n) ==
    /\ Len(name) > Len(n)
    /\ SubSeq(name, 1, Len(n)) = n

\* The rdataset of a type pair a reader at a serial is to see at a name, as
\* a set: empty when there is none.
Rdataset(name, typepair, serial) == VisibleHeaders(tree[name], typepair, serial)

\* The rdataset bound by the last call is the one of the type pair at name;
\* nothing is bound when there is none.
Bound(header, name, typepair, serial) ==
    IF Rdataset(name, typepair, serial) = {} THEN header = NoHeader
    ELSE header \in Rdataset(name, typepair, serial)

\* A node above n holds an active DNAME, or an active NS that counts (not
\* the NS of the apex of a zone that is not a stub).
CutAbove(n, serial) ==
    \E m \in DOMAIN tree :
        /\ Beneath(n, m)
        /\ \/ Rdataset(m, Plain("DNAME"), serial) # {}
           \/ /\ Rdataset(m, Plain("NS"), serial) # {}
              /\ (m # origin \/ workload.stub)

\* The query of the last call asks for glue and finds it: GLUEOK is set and
\* the query name holds an active rdataset of the query type.
GlueFound ==
    /\ "GLUEOK" \in lastcall.args.options
    /\ lastcall.args.name \in DOMAIN tree
    /\ Rdataset(lastcall.args.name, Plain(lastcall.args.type),
                lastcall.version.serial) # {}

\* The precedence of NS and DNAME at node n for the last call.
Precedence(n) ==
    LET serial == lastcall.version.serial
        answer == lastcall.answer
        ns     == Rdataset(n, Plain("NS"), serial) # {}
        dname  == Rdataset(n, Plain("DNAME"), serial) # {}
        asNS   == /\ answer.result = "DELEGATION"
                  /\ Bound(answer.rdataset, n, Plain("NS"), serial)
        asDNAME == /\ answer.result = "DNAME"
                   /\ Bound(answer.rdataset, n, Plain("DNAME"), serial)
                   /\ Bound(answer.sigrdataset, n, DNS_SIGTYPE("DNAME"), serial)
    IN  /\ (~workload.stub /\ ns /\ dname) => asNS
        /\ (~ns /\ dname) => asDNAME
        /\ (workload.stub /\ ns /\ dname) => asDNAME

\* C4, as claimed: NS and DNAME at a node other than the origin: every
\* zone_find for a name beneath the node returns DELEGATION with the NS in a
\* zone that is not a stub, DNAME with the DNAME and its RRSIG when only the
\* DNAME is active or when the zone is a stub.
C4_PrecedenceBeneathAnyNode ==
    lastcall.op = "zone_find" =>
        \A n \in DOMAIN tree \ {origin} :
            Beneath(lastcall.args.name, n) => Precedence(n)

\* C4, amended: the same for the topmost zone cut above the query name (no
\* node above n makes a zone cut), unless the query asks for glue and
\* finds it.
C4_PrecedenceAtTopmostCut ==
    lastcall.op = "zone_find" =>
        \A n \in DOMAIN tree \ {origin} :
            (/\ Beneath(lastcall.args.name, n)
             /\ ~CutAbove(n, lastcall.version.serial)
             /\ ~GlueFound)
            => Precedence(n)

\* A query beneath a node with NS and DNAME was answered with the NS.
C4_NSWon ==
    /\ lastcall.op = "zone_find"
    /\ ~workload.stub
    /\ lastcall.answer.result = "DELEGATION"
    /\ \E n \in DOMAIN tree \ {origin} :
          /\ Beneath(lastcall.args.name, n)
          /\ Rdataset(n, Plain("NS"), lastcall.version.serial) # {}
          /\ Rdataset(n, Plain("DNAME"), lastcall.version.serial) # {}
          /\ lastcall.answer.rdataset
                 \in Rdataset(n, Plain("NS"), lastcall.version.serial)

\* The last call asked, with GLUEOK clear in a zone that is not a stub, for
\* a name beneath node n, which holds an active NS, or for n itself and a
\* type other than DS, NSEC and KEY.
AtOrBeneathNS(n) ==
    /\ ~workload.stub
    /\ "GLUEOK" \notin lastcall.args.options
    /\ Rdataset(n, Plain("NS"), lastcall.version.serial) # {}
    /\ \/ Beneath(lastcall.args.name, n)
       \/ /\ lastcall.args.name = n
          /\ lastcall.args.type \notin {"DS", "NSEC", "KEY"}

\* C5, as claimed: with GLUEOK clear in a zone that is not a stub, zone_find
\* returns DELEGATION for every name beneath a node other than the origin
\* with an active NS, and for that node itself unless the type is DS, NSEC
\* or KEY.
C5_DelegationBeneathNS ==
    lastcall.op = "zone_find" =>
        \A n \in DOMAIN tree \ {origin} :
            AtOrBeneathNS(n) => lastcall.answer.result = "DELEGATION"

\* An active DNAME at a node above n.
DnameAbove(n, serial) ==
    \E m \in DOMAIN tree :
        Beneath(n, m) /\ Rdataset(m, Plain("DNAME"), serial) # {}

\* C5, amended: the same when no node above the cut holds an active DNAME;
\* when one does, the topmost zone cut is answered: DNAME, or DELEGATION
\* when an NS cut lies above that DNAME.
C5_DelegationUnlessDnameAbove ==
    lastcall.op = "zone_find" =>
        \A n \in DOMAIN tree \ {origin} :
            AtOrBeneathNS(n) =>
                IF DnameAbove(n, lastcall.version.serial)
                THEN lastcall.answer.result \in {"DNAME", "DELEGATION"}
                ELSE lastcall.answer.result = "DELEGATION"

\* The glue name beneath a cut was asked for without GLUEOK, and the
\* delegation was returned.
C5_GlueNameDelegated ==
    /\ lastcall.op = "zone_find"
    /\ lastcall.answer.result = "DELEGATION"
    /\ lastcall.args.name \in DOMAIN tree
    /\ Rdataset(lastcall.args.name, Plain(lastcall.args.type),
                lastcall.version.serial) # {}
    /\ \E n \in DOMAIN tree \ {origin} :
          AtOrBeneathNS(n) /\ Beneath(lastcall.args.name, n)

\* C6: in a zone that is not a stub the NS of the origin makes no zone cut:
\* no zone_find records the origin as zone cut with an NS or returns
\* DELEGATION from the origin, and find_callback is set on the origin only
\* for a DNAME or for a wildcard child.
C6_ApexNSNoCut ==
    ~workload.stub =>
        /\ tree[origin].find_callback =>
              \/ tree[origin].wild
              \/ StackIndex(tree[origin].data, Plain("DNAME")) # 0
        /\ lastcall.op = "zone_find" =>
              /\ ~(/\ lastcall.answer.zonecut = origin
                   /\ lastcall.answer.rdataset.type = Plain("NS"))
              /\ ~(/\ lastcall.answer.result = "DELEGATION"
                   /\ lastcall.answer.node = origin)

\* The origin, holding an active NS, was asked for and no delegation was
\* returned.
C6_ApexAsked ==
    /\ ~workload.stub
    /\ lastcall.op = "zone_find"
    /\ lastcall.args.name = origin
    /\ Rdataset(origin, Plain("NS"), lastcall.version.serial) # {}
    /\ lastcall.answer.result = "NXRRSET"

\* C7, as claimed: when zone_find returns DELEGATION or DNAME, foundname is
\* the name of the zone cut node whose NS or DNAME is bound.
C7_FoundnameIsZonecut ==
    (/\ lastcall.op = "zone_find"
     /\ lastcall.answer.result \in {"DELEGATION", "DNAME"})
    => /\ lastcall.answer.node = lastcall.answer.zonecut
       /\ lastcall.answer.foundname = lastcall.answer.zonecut

(***************************************************************************)
(* Wildcards.                                                              *)
(***************************************************************************)
\* Some rdataset is active at the name for a reader at the serial.
HasData(name, serial) ==
    \E i \in 1..Len(tree[name].data) :
        Rdataset(name, tree[name].data[i][1].type, serial) # {}

\* qname is an empty non-terminal itself: a name with active data lies
\* beneath it.
IsEnt(qname, serial) ==
    \E d \in DOMAIN tree : HasData(d, serial) /\ Beneath(d, qname)

\* An empty non-terminal lies strictly between the level p and qname: a
\* name with active data is a subdomain of a name r, p < r < qname.
EntBetween(p, qname, serial) ==
    \E k \in (Len(p) + 1)..(Len(qname) - 1) :
        \E d \in DOMAIN tree :
            /\ HasData(d, serial)
            /\ dns_name_issubdomain(d, SubSeq(qname, 1, k))

\* C8, as claimed: when, in the version searched, an empty non-terminal
\* lies strictly between the parent of a wildcard and the query name,
\* zone_find does not answer from that wildcard and does not set the
\* wildcard flag.
C8_BlockedWildcardNotUsed ==
    lastcall.op = "zone_find" =>
        \A w \in DOMAIN tree :
            (/\ dns_name_iswildcard(w)
             /\ Beneath(lastcall.args.name, StripLeft(w))
             /\ EntBetween(StripLeft(w), lastcall.args.name,
                           lastcall.version.serial))
            => /\ lastcall.answer.node # w
               /\ ~lastcall.answer.wildcard

\* No writer has left a trace: every header of the database is visible to
\* the version of the last call, none newer and none marked IGNORE.
AsLoaded ==
    \A n \in DOMAIN tree : \A i \in 1..Len(tree[n].data) :
        \A j \in 1..Len(tree[n].data[i]) :
            /\ tree[n].data[i][j].serial <= lastcall.version.serial
            /\ "IGNORE" \notin tree[n].data[i][j].attributes

\* The zone of C9 is loaded and unchanged: "*.sub A" and "deep.under.sub A"
\* are active, and the query is (other.under.sub, A).
C9_Scenario ==
    /\ lastcall.op = "zone_find"
    /\ lastcall.args = Query(<<1, 2, 2>>, "A", {})
    /\ {<<1, 0>>, <<1, 2, 1>>} \subseteq DOMAIN tree
    /\ Rdataset(<<1, 0>>, Plain("A"), lastcall.version.serial) # {}
    /\ Rdataset(<<1, 2, 1>>, Plain("A"), lastcall.version.serial) # {}
    /\ AsLoaded

\* The signed NSEC of the origin is active.
SignedApexNsec ==
    /\ Rdataset(origin, Plain("NSEC"), lastcall.version.serial) # {}
    /\ Rdataset(origin, DNS_SIGTYPE("NSEC"), lastcall.version.serial) # {}

\* C9, as claimed: in that zone zone_find(other.under.sub, A) returns
\* NXDOMAIN when the zone is not secure and EMPTYNAME when it is secure
\* with NSEC.
C9_NxdomainOrEmptyname ==
    C9_Scenario =>
        /\ ~lastcall.version.secure => lastcall.answer.result = "NXDOMAIN"
        /\ (lastcall.version.secure /\ SignedApexNsec)
              => lastcall.answer.result = "EMPTYNAME"

\* C9, amended: in that zone zone_find(other.under.sub, A) returns NXDOMAIN
\* without the wildcard, when the zone is not secure and also when it is
\* secure with a signed NSEC at the origin, whose NSEC and RRSIG are then
\* bound.
C9_NxdomainInBothCases ==
    C9_Scenario =>
        /\ ~lastcall.version.secure =>
              /\ lastcall.answer.result = "NXDOMAIN"
              /\ lastcall.answer.rdataset = NoHeader
        /\ (lastcall.version.secure /\ SignedApexNsec) =>
              /\ lastcall.answer.result = "NXDOMAIN"
              /\ lastcall.answer.foundname = origin
              /\ Bound(lastcall.answer.rdataset, origin, Plain("NSEC"),
                       lastcall.version.serial)
              /\ Bound(lastcall.answer.sigrdataset, origin,
                       DNS_SIGTYPE("NSEC"), lastcall.version.serial)
        /\ ~lastcall.answer.wildcard

\* The query of C9 was asked in the secure zone with its signed NSEC.
C9_SecureAsked ==
    /\ C9_Scenario
    /\ lastcall.version.secure
    /\ SignedApexNsec
    /\ lastcall.answer.result = "NXDOMAIN"

\* The closest existing ancestor of a name without a node.
ClosestAncestor(name) ==
    CHOOSE a \in DOMAIN tree :
        /\ Beneath(name, a)
        /\ \A b \in DOMAIN tree : Beneath(name, b) => Len(b) <= Len(a)

\* The case of C10 for the last call: the query name has no node and lies
\* beneath no zone cut, its closest existing ancestor has wild set, the "*"
\* child of that ancestor holds an active rdataset of the query type, and no
\* empty non-terminal blocks it: none lies between the ancestor and the
\* query name, and the query name is none itself.
C10_Case ==
    /\ lastcall.op = "zone_find"
    /\ "NOWILD" \notin lastcall.args.options
    /\ lastcall.args.name \notin DOMAIN tree
    /\ ~CutAbove(lastcall.args.name, lastcall.version.serial)
    /\ LET a == ClosestAncestor(lastcall.args.name)
       IN  /\ tree[a].wild
           /\ WildcardOf(a) \in DOMAIN tree
           /\ Rdataset(WildcardOf(a), Plain(lastcall.args.type),
                       lastcall.version.serial) # {}
           /\ ~EntBetween(a, lastcall.args.name, lastcall.version.serial)
           /\ ~IsEnt(lastcall.args.name, lastcall.version.serial)

\* C10, as claimed: in that case zone_find returns SUCCESS with the
\* rdataset of the wildcard node bound, foundname the query name and the
\* wildcard flag set.
C10_WildcardAnswer ==
    C10_Case =>
        LET w == WildcardOf(ClosestAncestor(lastcall.args.name))
        IN  /\ lastcall.answer.result = "SUCCESS"
            /\ lastcall.answer.node = w
            /\ Bound(lastcall.answer.rdataset, w, Plain(lastcall.args.type),
                     lastcall.version.serial)
            /\ lastcall.answer.foundname = lastcall.args.name
            /\ lastcall.answer.wildcard

(***************************************************************************)
(* The answer of the exact match.                                          *)
(***************************************************************************)
\* n makes a zone cut itself: it holds an active NS and is not the origin of
\* a zone that is not a stub.
NodeIsCut(n, serial) ==
    /\ Rdataset(n, Plain("NS"), serial) # {}
    /\ (n # origin \/ workload.stub)

\* The last call asked for a node that lies beneath no zone cut, makes none,
\* and holds an active CNAME.
AtAlias ==
    /\ lastcall.op = "zone_find"
    /\ lastcall.args.name \in DOMAIN tree
    /\ Rdataset(lastcall.args.name, Plain("CNAME"), lastcall.version.serial)
           # {}
    /\ ~CutAbove(lastcall.args.name, lastcall.version.serial)
    /\ ~NodeIsCut(lastcall.args.name, lastcall.version.serial)

FoundData ==
    /\ lastcall.op = "zone_find"
    /\ lastcall.answer.result \in {"SUCCESS", "GLUE", "ZONECUT"}

\* C12: an rdataset found while a zone cut is recorded is SUCCESS only at the
\* zone cut node for the types NSEC, NSEC3 and KEY, ZONECUT at the zone cut
\* node for the type ANY, and GLUE in every other case, every node beneath
\* the cut included; data found with no zone cut recorded is SUCCESS.  A
\* glue rdataset asked for with GLUEOK beneath an NS cut is found so.
C12_GlueOrZonecut ==
    LET q      == lastcall.args
        answer == lastcall.answer
        atcut  == answer.node = answer.zonecut
    IN  /\ FoundData =>
              answer.result =
                 (IF answer.zonecut = NoNode THEN "SUCCESS"
                  ELSE IF atcut /\ q.type \in {"NSEC", "NSEC3", "KEY"}
                  THEN "SUCCESS"
                  ELSE IF atcut /\ q.type = "ANY" THEN "ZONECUT"
                  ELSE "GLUE")
        /\ (/\ lastcall.op = "zone_find"
            /\ GlueFound
            /\ ~workload.stub
            /\ CutAbove(q.name, lastcall.version.serial)
            /\ ~DnameAbove(q.name, lastcall.version.serial))
           => /\ answer.result = "GLUE"
              /\ answer.node = q.name
              /\ Bound(answer.rdataset, q.name, Plain(q.type),
                       lastcall.version.serial)
        /\ (/\ lastcall.op = "zone_find"
            /\ "GLUEOK" \in q.options
            /\ ~workload.stub
            /\ q.name \in DOMAIN tree
            /\ ~CutAbove(q.name, lastcall.version.serial)
            /\ q.name # origin
            /\ Rdataset(q.name, Plain("NS"), lastcall.version.serial) # {})
           => (/\ q.type = "KEY"
                  /\ Rdataset(q.name, Plain("KEY"), lastcall.version.serial)
                        # {}
                  => answer.result = "SUCCESS")
              /\ (q.type = "ANY" => answer.result = "ZONECUT")
              /\ (q.type = "NS" => answer.result = "GLUE")

\* The KEY of a zone cut node was found at the cut.
C12_KeyAtCut ==
    /\ FoundData
    /\ lastcall.args.type = "KEY"
    /\ lastcall.answer.zonecut = lastcall.answer.node
    /\ lastcall.answer.result = "SUCCESS"

(***************************************************************************)
(* Names that do not exist.                                                *)
(***************************************************************************)
\* The wildcard "*.a" of an ancestor a of qname matches qname: it exists in
\* the version (with data, or as an empty non-terminal) and neither a name
\* with data nor an empty non-terminal lies between a and qname.
MatchesWildcard(qname, serial) ==
    \E a \in DOMAIN tree :
        /\ Beneath(qname, a)
        /\ WildcardOf(a) \in DOMAIN tree
        /\ \/ HasData(WildcardOf(a), serial)
           \/ IsEnt(WildcardOf(a), serial)
        /\ ~EntBetween(a, qname, serial)

\* The last call asked, wildcards allowed, for a name that does not exist
\* in the version (no node, or a node without an active header), lies
\* beneath no zone cut and matches no wildcard.
NoSuchName ==
    /\ lastcall.op = "zone_find"
    /\ "NOWILD" \notin lastcall.args.options
    /\ \/ lastcall.args.name \notin DOMAIN tree
       \/ ~HasData(lastcall.args.name, lastcall.version.serial)
    /\ ~CutAbove(lastcall.args.name, lastcall.version.serial)
    /\ ~MatchesWildcard(lastcall.args.name, lastcall.version.serial)

\* The closest NSEC before qname: the NSEC of the greatest name with data,
\* smaller than qname, that holds one.
ClosestNsecOwner(qname, serial) ==
    Greatest({n \in DOMAIN tree :
                 /\ NameLess(n, qname)
                 /\ Rdataset(n, Plain("NSEC"), serial) # {}})

\* C13: for a name that does not exist, lies beneath no zone cut and matches
\* no wildcard, zone_find returns EMPTYNAME exactly when a name with active
\* data lies beneath the query name, and NXDOMAIN otherwise; in a secure
\* zone without NSEC3 the closest NSEC before the name and its RRSIG are
\* bound.  A secure zone is taken with its signed NSEC at the origin.
C13_EmptynameOrNxdomain ==
    (NoSuchName /\ (lastcall.version.secure => SignedApexNsec)) =>
        LET q      == lastcall.args
            serial == lastcall.version.serial
            answer == lastcall.answer
        IN  /\ answer.result = IF IsEnt(q.name, serial)
                               THEN "EMPTYNAME" ELSE "NXDOMAIN"
            /\ (lastcall.version.secure /\ ~lastcall.version.havensec3) =>
                  /\ answer.rdataset # NoHeader
                  /\ Bound(answer.rdataset,
                           ClosestNsecOwner(q.name, serial), Plain("NSEC"),
                           serial)
                  /\ Bound(answer.sigrdataset,
                           ClosestNsecOwner(q.name, serial),
                           DNS_SIGTYPE("NSEC"), serial)

(***************************************************************************)
(* Signing times.                                                          *)
(***************************************************************************)
\* The headers on top of the stacks of the zone, as references.
Headers ==
    UNION {{HeaderRef(n, tree[n].data[i][1].type) :
               i \in 1..Len(tree[n].data)} : n \in DOMAIN tree}

\* ref is the earliest of the headers of S, the one of the lowest bucket
\* among those of its signing time.
Earliest(ref, S) ==
    /\ ref \in S
    /\ \A r \in S :
          /\ ~sooner(HeaderOf(tree, r), HeaderOf(tree, ref))
          /\ ~sooner(HeaderOf(tree, ref), HeaderOf(tree, r))
                => locknum(ref.name) <= locknum(r.name)

\* What getsigningtime is to return when the headers to resign are S.
SigningAnswer(S) ==
    LET answer == lastcall.answer
    IN  IF S = {}
        THEN answer.result = "NOTFOUND"
        ELSE /\ answer.result = "SUCCESS"
             /\ Earliest(HeaderRef(answer.foundname, answer.type), S)
             /\ answer.rdataset
                    = HeaderOf(tree, HeaderRef(answer.foundname, answer.type))

\* C14, as claimed: getsigningtime returns the header with the smallest
\* (resign, resign_lsb) among all the headers with RESIGN set, the one of
\* the lowest bucket when several have it, and NOTFOUND when no header has
\* RESIGN set.
C14_EarliestOfResign ==
    lastcall.op = "getsigningtime" =>
        SigningAnswer({r \in Headers : RESIGN(HeaderOf(tree, r))})

\* The header the last setsigningtime call was made on, as it is now.
SignedRef == HeaderRef(lastcall.args.name, lastcall.args.type)

SignedHeader == HeaderOf(tree, SignedRef)

\* ref is in the heap of its bucket.
InHeap(ref) ==
    \E k \in 1..Len(heaps[locknum(ref.name)]) :
        heaps[locknum(ref.name)][k] = ref

\* C15, as claimed: setsigningtime with resign 0 takes a header that is in
\* a heap out of it (heap_index 0) and clears its RESIGN; it leaves a header
\* that is in no heap as it was; setsigningtime with another resign on a
\* header in no heap sets RESIGN and inserts it into the heap of its bucket.
C15_SetSigningTime ==
    lastcall.op = "setsigningtime" =>
        LET old == lastcall.answer.oldheader
        IN  /\ (lastcall.args.resign = 0 /\ old.heap_index # 0) =>
                  /\ SignedHeader.heap_index = 0
                  /\ ~InHeap(SignedRef)
                  /\ ~RESIGN(SignedHeader)
            /\ (lastcall.args.resign = 0 /\ old.heap_index = 0) =>
                  /\ SignedHeader = old
                  /\ ~InHeap(SignedRef)
            /\ (lastcall.args.resign # 0 /\ old.heap_index = 0) =>
                  /\ RESIGN(SignedHeader)
                  /\ SignedHeader.heap_index # 0
                  /\ heaps[locknum(SignedRef.name)][SignedHeader.heap_index]
                        = SignedRef

\* Every heap is in heap order: no element is sooner than its parent; and
\* every header in a heap knows its index.
HeapOrdered ==
    \A b \in DOMAIN heaps : \A i \in 1..Len(heaps[b]) :
        /\ HeaderOf(tree, heaps[b][i]).heap_index = i
        /\ i > 1 => ~sooner(HeaderOf(tree, heaps[b][i]),
                            HeaderOf(tree, heaps[b][i \div 2]))

\* C16: every heap is in heap order after every setsigningtime call; on a
\* header that is in a heap and stays there, the call makes exactly one heap
\* operation, increased when the new time is sooner than the old one and
\* decreased when it is later, and none when the time is the same.
C16_HeapOrderKept ==
    /\ HeapOrdered
    /\ (/\ lastcall.op = "setsigningtime"
        /\ lastcall.args.resign # 0
        /\ lastcall.answer.oldheader.heap_index # 0)
       => lastcall.answer.heapop =
             (IF sooner(SignedHeader, lastcall.answer.oldheader)
              THEN "increased"
              ELSE IF sooner(lastcall.answer.oldheader, SignedHeader)
              THEN "decreased"
              ELSE "none")

\* The first header of a heap of two was given a later time than the
\* other's, and went beneath it.
C16_SankDown ==
    /\ lastcall.op = "setsigningtime"
    /\ lastcall.answer.heapop = "decreased"
    /\ lastcall.answer.oldheader.heap_index = 1
    /\ SignedHeader.heap_index = 2

(***************************************************************************)
(* The glue cache.                                                         *)
(***************************************************************************)
\* A glue_list that holds a value keeps it until it is taken off.
GlueListKept ==
    \A n \in GlueNames :
        (glue_list[n] # NullGlue /\ glue_list'[n] # NullGlue)
            => glue_list'[n] = glue_list[n]

\* Of the addglue calls that found glue_list null, one compare-and-swap
\* installed what glue_list holds (its computed list, or the sentinel
\* EMPTY when it found no glue); a caller that lost frees the list it
\* computed, and every caller adds the installed list to its message.
OneInstalls ==
    /\ \A n \in GlueNames :
          installs[n] = IF glue_list[n] = NullGlue THEN 0 ELSE 1
    /\ (lastcall.op = "addglue" /\ lastcall.answer.computed) =>
          LET a == lastcall.answer
              n == lastcall.args.node
          IN  IF a.old_glue = NullGlue
              THEN /\ glue_list[n] = (IF a.local = NullGlue THEN EMPTY
                                      ELSE a.local)
                   /\ a.freed = NullGlue
                   /\ a.additional = Additional(glue_list[n])
              ELSE /\ glue_list[n] = a.old_glue
                   /\ a.freed = a.local
                   /\ a.additional = Additional(a.old_glue)

\* C17: when threads call addglue on an NS header whose glue_list is null,
\* exactly one compare-and-swap installs a value, every caller adds the
\* installed list to its message, each loser frees its own list, and
\* glue_list never changes from one value that is not null to another.
C17_OneCasInstalls == []OneInstalls /\ [][GlueListKept]_vars

\* Two threads computed glue for the same header; the second lost, freed
\* its list and rendered the first's.
C17_LoserFreed ==
    /\ lastcall.op = "addglue"
    /\ lastcall.answer.computed
    /\ lastcall.answer.freed # NullGlue
    /\ lastcall.answer.old_glue \notin {NullGlue, EMPTY}
    /\ lastcall.answer.old_glue.owner # lastcall.args.thread

\* C18: every addglue call on an NS header with a version adds to a fresh
\* message the additional section that the first call on that header with
\* that version added.
C18_SameAdditional ==
    lastcall.op = "addglue" =>
        lastcall.answer.additional =
            rendered[<<lastcall.args.node, lastcall.version.serial>>]

(***************************************************************************)
(* The loader.                                                             *)
(***************************************************************************)
\* The name to the right of the j-th label of n.
RightOf(n, j) == SubSeq(n, 1, j - 1)

\* n owns records in the main tree: records other than NSEC3 and
\* RRSIG(NSEC3) that were added with success.
OwnsData(n) == n \in DOMAIN tree /\ tree[n].data # << >>

\* C19: after a load, for every name that owns a record other than NSEC3
\* and RRSIG(NSEC3) and for every wildcard label of it, the name to the
\* right of that label has a node in the main tree with wild and
\* find_callback set.
C19_WildcardParentsMarked ==
    "LOADED" \in attributes =>
        \A n \in DOMAIN tree : \A j \in 1..Len(n) :
            (OwnsData(n) /\ n[j] = WILD) =>
                /\ RightOf(n, j) \in DOMAIN tree
                /\ tree[RightOf(n, j)].wild
                /\ tree[RightOf(n, j)].find_callback

\* A name with a wildcard label inside it was loaded, and nothing at the
\* wildcard name itself.
C19_InnerWildcardLoaded ==
    /\ "LOADED" \in attributes
    /\ \E n \in DOMAIN tree : \E j \in 1..(Len(n) - 1) :
          /\ OwnsData(n) /\ n[j] = WILD
          /\ SubSeq(n, 1, j) \notin DOMAIN tree
          /\ tree[RightOf(n, j)].wild

\* An NSEC is among the records n owns.
OwnsNsec(n) ==
    n \in DOMAIN tree /\ StackIndex(tree[n].data, Plain("NSEC")) # 0

\* n owns NSEC3 or RRSIG(NSEC3) records and no others.
OwnsNsec3Only(n) ==
    /\ n \in DOMAIN nsec3 /\ nsec3[n].data # << >>
    /\ ~OwnsData(n)

\* Every owner of an NSEC has its name in the auxiliary NSEC tree.
NsecMirrored == \A n \in DOMAIN tree : OwnsNsec(n) => n \in nsec

Refusal(r) ==
    IF r.type = Plain("SOA") /\ r.name # origin THEN "NOTZONETOP"
    ELSE IF r.name # << >> /\ r.name[Len(r.name)] = WILD /\ r.type = Plain("NS")
    THEN "INVALIDNS"
    ELSE IF r.name # << >> /\ r.name[Len(r.name)] = WILD
            /\ r.type = Plain("NSEC3")
    THEN "INVALIDNSEC3"
    ELSE ""

\* Every node of trie t holds in trie u the headers it holds in t, and
\* the nodes u has besides hold none.
SameHeaders(t, u) ==
    /\ DOMAIN t \subseteq DOMAIN u
    /\ \A n \in DOMAIN u :
          u[n].data = IF n \in DOMAIN t THEN t[n].data ELSE << >>

\* C21: loading_addrdataset returns NOTZONETOP for an SOA that is not at
\* the origin, INVALIDNS for an NS at a wildcard name and INVALIDNSEC3 for
\* an NSEC3 at a wildcard name, and in each case no node of the main or of
\* the NSEC3 tree gets a header and no heap an element.
C21_RefusedNothingAdded ==
    /\ "LOADING" \in attributes =>
          \A r \in workload.zonefile :
              Refusal(r) # "" =>
                  LET loaded == LoadRecord(r)
                  IN  /\ loaded.result = Refusal(r)
                      /\ SameHeaders(tree, loaded.tree)
                      /\ SameHeaders(nsec3, loaded.nsec3)
                      /\ loaded.heaps = heaps
    /\ (lastcall.op = "loading_addrdataset" /\ Refusal(lastcall.args) # "") =>
          lastcall.answer = Refusal(lastcall.args)

\* The wildcard NS was refused and left the nodes that addwildcards made,
\* without a header; the wildcard NSEC3 has just been refused and left no
\* trace.
C21_WildcardsRefused ==
    /\ workload = RejectZone
    /\ lastcall.op = "loading_addrdataset"
    /\ lastcall.answer = "INVALIDNSEC3"
    /\ <<2, 0, 0>> \in DOMAIN tree /\ tree[<<2, 0, 0>>].data = << >>
    /\ <<2>> \in DOMAIN tree /\ tree[<<2>>].wild /\ tree[<<2>>].data = << >>
    /\ <<3>> \notin DOMAIN tree
    /\ <<5, 0>> \notin DOMAIN nsec3
    /\ <<5>> \notin DOMAIN tree
(***************************************************************************)
(* The loader's state.                                                     *)
(***************************************************************************)
\* LOADING and LOADED are never both set.
LoadExclusive == ~({"LOADING", "LOADED"} \subseteq attributes)

\* The only steps that change qpdb->attributes: from nothing set to
\* LOADING alone, and from LOADING alone to LOADED alone.
LoadStep ==
    attributes' # attributes =>
        \/ attributes = {} /\ attributes' = {"LOADING"}
        \/ attributes = {"LOADING"} /\ attributes' = {"LOADED"}

\* C22: the loader state only moves idle -> LOADING -> LOADED: beginload
\* acts only when neither flag is set and sets LOADING, endload acts only
\* when LOADING is set and LOADED is not and leaves LOADED set and LOADING
\* clear; the two are never both set, and a LOADED database never becomes
\* LOADING again.
C22_LoaderStateOneWay == []LoadExclusive /\ [][LoadStep]_vars

\* endload has returned on a database that beginload made LOADING and the
\* loader filled.
C22_Loaded ==
    /\ lastcall.op = "endload"
    /\ attributes = {"LOADED"}
    /\ \E n \in DOMAIN tree : tree[n].data # << >>
(***************************************************************************)
(* Node references of a search.                                            *)
(***************************************************************************)
\* How many of the references in seq are to node x.
RefsTo(seq, x) == Cardinality({i \in 1..Len(seq) : seq[i] = x})

\* C23 (calls that pass nodep): when zone_find returns, the references it
\* took and did not give back are exactly one, to the node it hands back,
\* when it hands a node back, and none otherwise; the reference taken on a
\* zonecut node is either the one handed to the caller or was dropped in
\* cleanup; and the search took at most one reference for its zonecut.
C23_ReferencesBalanced ==
    lastcall.op = "zone_find" =>
        LET a == lastcall.answer
        IN  /\ a.newrefs = IF a.node # NoNode THEN <<a.node>> ELSE << >>
            /\ a.zonecut # NoNode => RefsTo(a.taken, a.zonecut) = 1
            /\ a.zonecut = NoNode => Len(a.taken) <= 1
            /\ Len(a.taken) <= 2

\* A search with GLUEOK took a reference to a zone cut above the name,
\* found glue beneath it, took a reference to that node for the caller
\* and dropped the one to the zone cut.
C23_ZonecutDropped ==
    /\ lastcall.op = "zone_find"
    /\ lastcall.answer.result = "GLUE"
    /\ lastcall.answer.zonecut # lastcall.answer.node
    /\ lastcall.answer.taken = <<lastcall.answer.zonecut, lastcall.answer.node>>
    /\ lastcall.answer.newrefs = <<lastcall.answer.node>>

(***************************************************************************)
(* The order of a down stack.                                              *)
(***************************************************************************)
\* In every stack of every node of trie t, each header is of a serial
\* greater than that of the header below it.
StrictlyDown(t) ==
    \A n \in DOMAIN t : \A i \in 1..Len(t[n].data) :
        \A k \in 1..(Len(t[n].data[i]) - 1) :
            t[n].data[i][k].serial > t[n].data[i][k + 1].serial

\* C24: in every reachable state, at every node and for every type pair,
\* header.serial > header.down.serial; loading several rdatasets of one
\* type at one name, all of serial 1 and merged, never stacks two headers.
C24_SerialsDecreaseDown ==
    /\ StrictlyDown(tree)
    /\ StrictlyDown(nsec3)
    /\ "LOADING" \in attributes =>
           \A n \in DOMAIN tree : \A i \in 1..Len(tree[n].data) :
               Len(tree[n].data[i]) = 1

(***************************************************************************)
(* Wildcards masked by an active ancestor.                                 *)
(***************************************************************************)
\* The node of this name has a header with serial <= the serial that is
\* not IGNORE, NONEXISTENT or ANCIENT.
ActiveIn(name, serial) ==
    \E i \in 1..Len(tree[name].data) : \E k \in 1..Len(tree[name].data[i]) :
        LET header == tree[name].data[i][k]
        IN  /\ header.serial <= serial
            /\ ~IGNORE(header) /\ EXISTS(header) /\ ~ANCIENT(header)

\* The search of zone_find for a query when it comes to its partial match.
SearchOf(q, v, lk) ==
    AncestorScan(NewSearch(v, q.options, lk), 1,
                 IF lk.result = "SUCCESS"
                 THEN Len(lk.chain) - 1 ELSE Len(lk.chain)).search

\* find_wildcard answered with a wildcard although an ancestor of the
\* query name closer to it than the wildcard's parent is active.
Unmasked(qname, serial, fw) ==
    /\ fw.result = "SUCCESS"
    /\ fw.node # NoNode
    /\ \E b \in DOMAIN tree :
          /\ dns_name_issubdomain(qname, b)
          /\ b # qname
          /\ Len(b) > Len(StripLeft(fw.node))
          /\ ActiveIn(b, serial)

\* C25: find_wildcard never returns a wildcard whose parent is an ancestor
\* A of the query name when an ancestor of the query name closer to it
\* than A is active in the search version.
C25_MaskedByActiveAncestor ==
    "LOADED" \in attributes =>
        \A q \in workload.queries : \A v \in QueryVersions :
            ~Unmasked(q.name, v.serial,
                      find_wildcard(SearchOf(q, v, dns_qp_lookup(DOMAIN tree,
                                                                 q.name)),
                                    q.name))
(***************************************************************************)
(* The topmost zone cut.                                                   *)
(***************************************************************************)
\* The node holds an active NS or an active DNAME.
HoldsCutType(m, serial) ==
    \/ Rdataset(m, Plain("NS"), serial) # {}
    \/ Rdataset(m, Plain("DNAME"), serial) # {}

\* The node is a zone cut: it holds an active DNAME, or an active NS that
\* is not the NS of the origin of a zone that is not a stub.
IsZoneCut(m, serial) ==
    \/ Rdataset(m, Plain("DNAME"), serial) # {}
    \/ NodeIsCut(m, serial)

\* The one of a set of ancestors of one name that is closest to the origin.
Topmost(S) == CHOOSE m \in S : \A k \in S : Len(m) <= Len(k)

\* The last call, a zone_find with several nodes of S above its name,
\* recorded the topmost of them as its zonecut, with a header of that
\* node, and took one reference for it.
RecordedTopmost(S) ==
    Cardinality(S) >= 2 =>
        /\ lastcall.answer.zonecut = Topmost(S)
        /\ lastcall.answer.zonecut_header \in
               Rdataset(Topmost(S), Plain("NS"), lastcall.version.serial)
               \cup Rdataset(Topmost(S), Plain("DNAME"),
                             lastcall.version.serial)
        /\ RefsTo(lastcall.answer.taken, Topmost(S)) = 1
        /\ Len(lastcall.answer.taken) <= 2

\* C26, as claimed: when several ancestors of the query name hold an
\* active NS or DNAME, the zonecut zone_find records is the one closest to
\* the origin, with or without GLUEOK.
C26_TopmostHolderRecorded ==
    lastcall.op = "zone_find" =>
        RecordedTopmost({m \in DOMAIN tree :
                            /\ Beneath(lastcall.args.name, m)
                            /\ HoldsCutType(m, lastcall.version.serial)})

\* C26, amended: the same of the ancestors that are zone cuts, the origin
\* of a zone that is not a stub being none by its NS.
C26_TopmostCutRecorded ==
    lastcall.op = "zone_find" =>
        RecordedTopmost({m \in DOMAIN tree :
                            /\ Beneath(lastcall.args.name, m)
                            /\ IsZoneCut(m, lastcall.version.serial)})

\* A search with GLUEOK went on beneath the topmost of two zone cuts above
\* its name, found glue there, and kept the topmost cut.
C26_WentOnBeneathTwoCuts ==
    /\ lastcall.op = "zone_find"
    /\ "GLUEOK" \in lastcall.args.options
    /\ lastcall.answer.result = "GLUE"
    /\ Cardinality({m \in DOMAIN tree :
                       /\ Beneath(lastcall.args.name, m)
                       /\ IsZoneCut(m, lastcall.version.serial)}) >= 2
(***************************************************************************)
(* A type that is not there, in a secure zone without NSEC3.               *)
(***************************************************************************)
\* The last call is a zone_find in a secure version without NSEC3 for a
\* name beneath no zone cut.
SecureFind ==
    /\ lastcall.op = "zone_find"
    /\ lastcall.version.secure /\ ~lastcall.version.havensec3
    /\ "NOWILD" \notin lastcall.args.options
    /\ ~CutAbove(lastcall.args.name, lastcall.version.serial)

\* Node n holds nothing for the type asked: no active rdataset of the
\* type, and no CNAME that stands for it.
TypeAbsent(n) ==
    /\ lastcall.args.type # "ANY"
    /\ Rdataset(n, Plain(lastcall.args.type), lastcall.version.serial) = {}
    /\ \/ Rdataset(n, Plain("CNAME"), lastcall.version.serial) = {}
       \/ lastcall.args.type \in {"KEY", "NSEC"}

\* Node n holds an active NSEC and an active RRSIG(NSEC).
SignedNsec(n) ==
    /\ Rdataset(n, Plain("NSEC"), lastcall.version.serial) # {}
    /\ Rdataset(n, DNS_SIGTYPE("NSEC"), lastcall.version.serial) # {}

\* The name asked exists in the version, is no zone cut itself and holds
\* nothing for the type.
ExactAbsent ==
    /\ SecureFind
    /\ lastcall.args.name \in DOMAIN tree
    /\ HasData(lastcall.args.name, lastcall.version.serial)
    /\ ~NodeIsCut(lastcall.args.name, lastcall.version.serial)
    /\ TypeAbsent(lastcall.args.name)

\* The name asked has no node, the "*" child of its closest ancestor has
\* active data and no empty non-terminal blocks it, and that wildcard holds
\* nothing for the type and no signed NSEC.
WildAbsent ==
    /\ SecureFind
    /\ SignedApexNsec
    /\ lastcall.args.name \notin DOMAIN tree
    /\ ~IsEnt(lastcall.args.name, lastcall.version.serial)
    /\ LET a == ClosestAncestor(lastcall.args.name)
       IN  /\ tree[a].wild
           /\ WildcardOf(a) \in DOMAIN tree
           /\ HasData(WildcardOf(a), lastcall.version.serial)
           /\ ~EntBetween(a, lastcall.args.name, lastcall.version.serial)
           /\ TypeAbsent(WildcardOf(a))
           /\ ~SignedNsec(WildcardOf(a))

\* C27: in a secure zone without NSEC3, for a name that exists by exact
\* match beneath no zone cut and holds nothing for the type, zone_find
\* returns NXRRSET with the NSEC and RRSIG(NSEC) of the node bound, or,
\* when the node lacks one of them, BADDB with nothing bound and no node;
\* for a wildcard match lacking them it returns EMPTYWILD with the closest
\* NSEC and its RRSIG bound.
C27_NxrrsetBaddbEmptywild ==
    /\ (ExactAbsent /\ SignedNsec(lastcall.args.name)) =>
          /\ lastcall.answer.result = "NXRRSET"
          /\ lastcall.answer.node = lastcall.args.name
          /\ Bound(lastcall.answer.rdataset, lastcall.args.name,
                   Plain("NSEC"), lastcall.version.serial)
          /\ Bound(lastcall.answer.sigrdataset, lastcall.args.name,
                   DNS_SIGTYPE("NSEC"), lastcall.version.serial)
    /\ (ExactAbsent /\ ~SignedNsec(lastcall.args.name)) =>
          /\ lastcall.answer.result = "BADDB"
          /\ lastcall.answer.node = NoNode
          /\ lastcall.answer.rdataset = NoHeader
          /\ lastcall.answer.sigrdataset = NoHeader
    /\ WildAbsent =>
          /\ lastcall.answer.result = "EMPTYWILD"
          /\ Bound(lastcall.answer.rdataset,
                   ClosestNsecOwner(lastcall.args.name,
                                    lastcall.version.serial),
                   Plain("NSEC"), lastcall.version.serial)
          /\ Bound(lastcall.answer.sigrdataset,
                   ClosestNsecOwner(lastcall.args.name,
                                    lastcall.version.serial),
                   DNS_SIGTYPE("NSEC"), lastcall.version.serial)
(***************************************************************************)
(* The walk of find_closest_nsec.                                          *)
(***************************************************************************)
\* The last call is a zone_find that went through find_closest_nsec.
ClosestNsecWalked ==
    /\ lastcall.op = "zone_find"
    /\ lastcall.answer.walk # << >>

\* Every pass of the walk goes strictly backwards in canonical order.
StrictlyBackward(walk) ==
    \A i \in 1..Len(walk) : \A j \in 1..(Len(walk[i]) - 1) :
        NameLess(walk[i][j + 1], walk[i][j])

\* C28: find_closest_nsec terminates: every step of its walk goes strictly
\* backwards in canonical order, only the walk through the NSEC3 tree
\* starts again from the end, and at most once, and a walk that finds no
\* usable record ends in BADDB, a walk that succeeds with a record bound.
C28_WalkBackwardToBaddb ==
    ClosestNsecWalked =>
        /\ StrictlyBackward(lastcall.answer.walk)
        /\ Len(lastcall.answer.walk) <= 2
        /\ Len(lastcall.answer.walk) = 2 =>
               "FORCENSEC3" \in lastcall.args.options
        /\ IF lastcall.answer.result \in {"NXDOMAIN", "EMPTYNAME", "EMPTYWILD"}
           THEN /\ lastcall.answer.rdataset # NoHeader
                /\ lastcall.answer.node # NoNode
           ELSE lastcall.answer.result = "BADDB"
(***************************************************************************)
(* The locks of getsigningtime.                                            *)
(***************************************************************************)
\* How often the first k lock events do op on a lock.
Count(E, k, op, lock) ==
    Cardinality({j \in 1..k : E[j].op = op /\ E[j].lock = lock})

\* The bucket locks held after the first k lock events, and whether the
\* tree lock is.
HeldAfter(E, k) ==
    {b \in 0..(node_lock_count - 1) :
        Count(E, k, "NODE_RDLOCK", b) > Count(E, k, "NODE_UNLOCK", b)}

TreeHeldAfter(E, k) ==
    Count(E, k, "TREE_RDLOCK", tree_lock) > Count(E, k, "TREE_UNLOCK", tree_lock)

\* The lock events E take the bucket locks in ascending order, each under
\* the tree lock, and give back only read locks that are held.
LocksInOrder(E) ==
    /\ \A j, k \in 1..Len(E) :
          (j < k /\ E[j].op = "NODE_RDLOCK" /\ E[k].op = "NODE_RDLOCK")
              => E[j].lock < E[k].lock
    /\ \A k \in 1..Len(E) :
          /\ E[k].op = "NODE_RDLOCK" => TreeHeldAfter(E, k - 1)
          /\ E[k].op = "NODE_UNLOCK" =>
                (E[k].lock \in HeldAfter(E, k - 1) /\ E[k].type = "read")
          /\ E[k].op = "TREE_UNLOCK" =>
                (TreeHeldAfter(E, k - 1) /\ E[k].type = "read")

\* C29: getsigningtime takes the bucket read locks in strictly ascending
\* order under the tree read lock, never holds more than two of them,
\* binds the winning header under the read lock of its bucket, and returns
\* SUCCESS or NOTFOUND with no bucket lock and no tree lock held.
C29_BucketLocksOfGetsigningtime ==
    lastcall.op = "getsigningtime" =>
        /\ lastcall.answer.result \in {"SUCCESS", "NOTFOUND"}
        /\ LocksInOrder(lastcall.answer.locks)
        /\ \A k \in 1..Len(lastcall.answer.locks) :
              /\ Cardinality(HeldAfter(lastcall.answer.locks, k)) <= 2
              /\ lastcall.answer.locks[k].op = "bindrdataset" =>
                    /\ lastcall.answer.locks[k].lock
                           = locknum(lastcall.answer.foundname)
                    /\ HeldAfter(lastcall.answer.locks, k)
                           = {lastcall.answer.locks[k].lock}
        /\ lastcall.answer.result = "SUCCESS" =>
              \E k \in 1..Len(lastcall.answer.locks) :
                  lastcall.answer.locks[k].op = "bindrdataset"
        /\ HeldAfter(lastcall.answer.locks, Len(lastcall.answer.locks)) = {}
        /\ ~TreeHeldAfter(lastcall.answer.locks, Len(lastcall.answer.locks))

\* A getsigningtime that found a header in each of the three buckets and
\* the earliest in the last one: it held two bucket locks and gave back the
\* lock of the first bucket, whose header was the best so far.
C29_BestBucketReplaced ==
    /\ lastcall.op = "getsigningtime"
    /\ lastcall.answer.result = "SUCCESS"
    /\ locknum(lastcall.answer.foundname) = node_lock_count - 1
    /\ \A b \in 0..(node_lock_count - 1) : heaps[b] # << >>
    /\ \E k \in 1..Len(lastcall.answer.locks) :
          /\ Cardinality(HeldAfter(lastcall.answer.locks, k)) = 2
          /\ lastcall.answer.locks[k + 1] = LockEvent("NODE_UNLOCK", 0, "read")
(***************************************************************************)
(* The locks of zone_find.                                                 *)
(***************************************************************************)
\* How many bucket locks are held after the first k lock events.
HeldCount(E, k) ==
    Cardinality({j \in 1..k : E[j].op = "NODE_RDLOCK"})
        - Cardinality({j \in 1..k : E[j].op = "NODE_UNLOCK"})

\* The place of the one event op among the lock events E, or 0.
PlaceOf(E, op) ==
    IF Cardinality({k \in 1..Len(E) : E[k].op = op}) = 1
    THEN CHOOSE k \in 1..Len(E) : E[k].op = op
    ELSE 0

\* What zone_find does after it gave the tree lock back at place u: the
\* reference to a zonecut it keeps for itself is dropped under the lock of
\* its bucket, and the version it attached is closed.
AfterTreeExit(E, u, drop, bucket, close) ==
    SubSeq(E, u + 1, Len(E))
        = (IF drop THEN <<LockEvent("NODE_RDLOCK", bucket, "read"),
                          LockEvent("NODE_UNLOCK", bucket, "read")>>
           ELSE << >>)
          \o (IF close THEN <<LockEvent("closeversion", tree_lock, "none")>>
              ELSE << >>)

\* C30: zone_find takes the tree read lock first and gives it back once,
\* after the last lock of the search and before the cleanup; it never
\* holds two bucket locks; whatever it returns, no bucket lock and no tree
\* lock is held then, and the version it attached by itself is closed.
C30_LocksOfZoneFind ==
    lastcall.op = "zone_find" =>
        /\ PlaceOf(lastcall.answer.locks, "TREE_RDLOCK") = 1
        /\ PlaceOf(lastcall.answer.locks, "TREE_UNLOCK") > 1
        /\ \A k \in 1..Len(lastcall.answer.locks) :
              /\ HeldCount(lastcall.answer.locks, k) \in {0, 1}
              /\ lastcall.answer.locks[k].op = "NODE_UNLOCK" =>
                    /\ lastcall.answer.locks[k].type = "read"
                    /\ lastcall.answer.locks[k - 1]
                           = LockEvent("NODE_RDLOCK",
                                       lastcall.answer.locks[k].lock, "read")
        /\ HeldCount(lastcall.answer.locks,
                     PlaceOf(lastcall.answer.locks, "TREE_UNLOCK")) = 0
        /\ AfterTreeExit(lastcall.answer.locks,
                         PlaceOf(lastcall.answer.locks, "TREE_UNLOCK"),
                         Len(lastcall.answer.newrefs)
                             < Len(lastcall.answer.taken),
                         locknum(lastcall.answer.zonecut),
                         lastcall.answer.close_version)
        /\ HeldCount(lastcall.answer.locks, Len(lastcall.answer.locks)) = 0

\* A zone_find without a version of the caller found the node without its
\* signed NSEC in a secure zone and returned BADDB.
C30_BaddbWithNodeLocked ==
    /\ lastcall.op = "zone_find"
    /\ lastcall.answer.result = "BADDB"
    /\ lastcall.answer.walk = << >>
    /\ lastcall.answer.close_version
    /\ lastcall.args.name \in DOMAIN tree
    /\ \E k \in 1..Len(lastcall.answer.locks) :
          lastcall.answer.locks[k]
              = LockEvent("NODE_RDLOCK", locknum(lastcall.args.name), "read")
(***************************************************************************)
(* The glue addglue adds to a message.                                     *)
(***************************************************************************)
\* The name servers of the NS rdataset a call of addglue was made with.
NsTargets(call) ==
    {nsdname(r) :
        r \in ActiveOfType(tree[call.args.node], Plain("NS"),
                           call.version.serial).rd}

\* The zone holds glue of the type for the name server in the version.
FindsGlue(version, t, type) ==
    zone_find(t, version, type, {"GLUEOK"}).result = "GLUE"

\* The rdatasets of the type that the section links to the name.
GlueOf(section, t, type) ==
    {section[i].list[j] :
        <<i, j>> \in {ij \in (DOMAIN section) \X (1..4) :
                         /\ section[ij[1]].name = t
                         /\ ij[2] \in DOMAIN section[ij[1]].list
                         /\ section[ij[1]].list[ij[2]].type = Plain(type)}}

\* Some rdataset of the section is required glue.
AnyRequired(section) ==
    \E i \in DOMAIN section : \E j \in DOMAIN section[i].list :
        IS_REQUIRED_GLUE(section[i].list[j])

\* The first rdataset of the first name of the section is required glue.
RequiredFirst(section) ==
    /\ section # << >>
    /\ section[1].list # << >>
    /\ IS_REQUIRED_GLUE(section[1].list[1])

\* Additional sections as a message may hold before addglue is called.
PriorSections ==
    {<< >>,
     <<[name |-> <<6>>, list |-> <<NewHeader(Plain("A"), 1, {"r1"})>>]>>,
     <<[name |-> <<6>>, list |-> <<NewHeader(Plain("A"), 1, {"r1"})>>],
       [name |-> <<7>>, list |-> <<NewHeader(Plain("AAAA"), 1, {"r1"})>>]>>}

\* The glue the call put into its fresh message, as a chain.
AddedChain(answer) ==
    IF answer.glue \in {NullGlue, EMPTY} THEN << >> ELSE answer.glue.list

\* C31: in the version of an addglue call, every name server at or beneath
\* the owner of the NS rdataset that has glue of a type gets that rdataset
\* added as required glue, a name server without glue adds no name, and
\* when some added glue is required the section starts with required glue
\* whatever it held before.
C31_RequiredGlueFirst ==
    lastcall.op = "addglue" =>
        /\ \A t \in NsTargets(lastcall) : \A type \in {"A", "AAAA"} :
              (/\ dns_name_issubdomain(t, lastcall.args.node)
               /\ FindsGlue(lastcall.version, t, type))
                  => /\ GlueOf(lastcall.answer.additional, t, type) # {}
                     /\ \A r \in GlueOf(lastcall.answer.additional, t, type) :
                           IS_REQUIRED_GLUE(r)
        /\ \A t \in NsTargets(lastcall) :
              (\A type \in {"A", "AAAA"} :
                   ~FindsGlue(lastcall.version, t, type))
                  => \A i \in DOMAIN lastcall.answer.additional :
                         lastcall.answer.additional[i].name # t
        /\ \A pre \in PriorSections :
              AnyRequired(lastcall.answer.additional)
                  => RequiredFirst(addglue_to_message(
                                       AddedChain(lastcall.answer), pre))
(***************************************************************************)
(* The glue stacks of the versions.                                        *)
(***************************************************************************)
\* The places of the header of node on the glue stacks of the versions.
PlacesOnStacks(stack, node) ==
    {si \in (DOMAIN stack) \X (1..Cardinality(Threads) + 1) :
        si[2] \in DOMAIN stack[si[1]] /\ stack[si[1]][si[2]] = node}

\* A published glue list is on one stack, the sentinel and null on none.
OnOneStack ==
    \A n \in DOMAIN glue_list :
        Cardinality(PlacesOnStacks(glue_stack, n))
            = (IF glue_list[n] \in {NullGlue, EMPTY} THEN 0 ELSE 1)

\* A step that puts the header of a node on a stack is the return of the
\* addglue call on that node whose compare-and-swap installed a glue list,
\* and the stack is the one of the version of that call.
PushedByInstaller ==
    \A n \in DOMAIN glue_list :
        PlacesOnStacks(glue_stack', n) \ PlacesOnStacks(glue_stack, n) # {}
            => /\ glue_list[n] = NullGlue
               /\ glue_list'[n] \notin {NullGlue, EMPTY}
               /\ lastcall'.op = "addglue"
               /\ lastcall'.args.node = n
               /\ lastcall'.answer.old_glue = NullGlue
               /\ lastcall'.answer.glue = glue_list'[n]
               /\ PlacesOnStacks(glue_stack', n)
                      = {<<lastcall'.version.serial, 1>>}

\* C32: the header of an NS rdataset goes on a glue stack only in the
\* addglue call whose compare-and-swap installed a glue list, on the stack
\* of that call's version; a published glue list is on exactly one stack,
\* and a null or sentinel glue_list on none.
C32_PushedOnceByInstaller == []OnOneStack /\ [][PushedByInstaller]_vars

\* A caller with one version lost the compare-and-swap against a caller
\* with another version and freed its list; the header is on the stack of
\* the winner's version alone.
C32_LoserOfOtherVersion ==
    /\ lastcall.op = "addglue"
    /\ lastcall.answer.computed
    /\ lastcall.answer.local # NullGlue
    /\ lastcall.answer.old_glue \notin {NullGlue, EMPTY}
    /\ \E s \in DOMAIN glue_stack :
          /\ s # lastcall.version.serial
          /\ glue_stack[s] = <<lastcall.args.node>>
    /\ lastcall.version.serial \notin DOMAIN glue_stack
(***************************************************************************)
(* Delegating types and the scan of the ancestors.                         *)
(***************************************************************************)
\* The node holds an active rdataset of a delegating type in the version.
HoldsDelegating(n, serial) ==
    \/ ActiveOfType(tree[n], Plain("DNAME"), serial) # NoHeader
    \/ /\ ActiveOfType(tree[n], Plain("NS"), serial) # NoHeader
       /\ (n # origin \/ IS_STUB)

\* The proper ancestors of the name, the origin among them.
Ancestors(name) == {SubSeq(name, 1, k) : k \in 0..(Len(name) - 1)}

\* The ancestors of the query name that hold an active delegating type.
CutsAbove(call) ==
    {n \in Ancestors(call.args.name) \cap DOMAIN tree :
        HoldsDelegating(n, call.version.serial)}

\* check_zonecut was called on the node in the call.
Examined(call, n) ==
    \E k \in DOMAIN call.answer.examined : call.answer.examined[k] = n

\* A node that holds a DNAME, an NS away from the origin, or an NS in a stub
\* zone has find_callback set.
DelegatingMarked ==
    \A n \in DOMAIN tree : \A i \in DOMAIN tree[n].data :
        (\/ tree[n].data[i][1].type = Plain("DNAME")
         \/ /\ tree[n].data[i][1].type = Plain("NS")
            /\ (n # origin \/ IS_STUB))
            => tree[n].find_callback

\* Every ancestor with an active delegating type is examined.
AllCutsExamined ==
    (lastcall.op = "zone_find" /\ "FORCENSEC3" \notin lastcall.args.options)
        => \A n \in CutsAbove(lastcall) : Examined(lastcall, n)

\* Every ancestor with an active delegating type is examined, unless the
\* scan stopped at a node above it.
CutsExaminedDownToStop ==
    (lastcall.op = "zone_find" /\ "FORCENSEC3" \notin lastcall.args.options)
        => \A n \in CutsAbove(lastcall) :
              \/ Examined(lastcall, n)
              \/ /\ lastcall.answer.examined # << >>
                 /\ lastcall.answer.examined[Len(lastcall.answer.examined)]
                        \in Ancestors(n)
                 /\ lastcall.answer.zonecut
                        = lastcall.answer.examined[
                              Len(lastcall.answer.examined)]

\* C33 as stated: a node with a record of a delegating type has
\* find_callback set, and every zone_find for a name beneath a node with
\* an active record of such a type calls check_zonecut on that node.
C33_EveryCutExamined == DelegatingMarked /\ AllCutsExamined

\* C33: a node with a record of a delegating type has find_callback set,
\* and every zone_find for a name beneath a node with an active record of
\* such a type calls check_zonecut on that node, unless check_zonecut found
\* a zone cut at a node above it, where the scan of the ancestors stops.
C33_CutsExaminedDownToStop == DelegatingMarked /\ CutsExaminedDownToStop

\* A zone_find for a name beneath two nodes with delegating types examined
\* the upper one, found the cut there and never looked at the lower one.
C33_LowerCutNotExamined ==
    /\ lastcall.op = "zone_find"
    /\ \E n \in CutsAbove(lastcall) : \E m \in CutsAbove(lastcall) :
          /\ m \in Ancestors(n)
          /\ Examined(lastcall, m)
          /\ ~Examined(lastcall, n)
          /\ lastcall.answer.zonecut = m
(***************************************************************************)
(* getsigningtime beside setsigningtime.                                   *)
(***************************************************************************)
\* C34: the header a getsigningtime call returns was the earliest of all
\* resign heaps at some instant between the call and its return, whatever
\* setsigningtime calls ran beside it.
C34_ScanLinearizable ==
    (sigscan.pc = "done" /\ sigscan.answer # NoRef)
        => sigscan.answer \in sigscan.wasmin
(***************************************************************************)
(* The glue of a version.                                                  *)
(***************************************************************************)
\* The additional section newglue gives for the NS rdataset of the node in
\* the version, added to a fresh message.
GlueOfVersion(node, version) ==
    addglue_to_message(
        newglue(version, node,
                ActiveOfType(tree[node], Plain("NS"), version.serial)),
        << >>)

\* C35: the glue an addglue call adds to the message is the glue of the
\* NS rdataset in the version of the call, whichever version filled the
\* glue cache of the header.
C35_GlueOfItsVersion ==
    lastcall.op = "addglue" =>
        lastcall.answer.additional
            = GlueOfVersion(lastcall.args.node, lastcall.version)
(***************************************************************************)
(* What a refused record leaves behind.                                    *)
(***************************************************************************)
\* The step is a loading_addrdataset call that refused its record.
RefusedStep ==
    /\ lastcall'.op = "loading_addrdataset"
    /\ lastcall'.answer \in {"NOTZONETOP", "INVALIDNS", "INVALIDNSEC3"}

\* C36: a record that loading_addrdataset refuses with NOTZONETOP,
\* INVALIDNS or INVALIDNSEC3 leaves the main, the NSEC and the NSEC3 tree
\* as they were, with the wild, find_callback and nsec fields of every
\* node, and the database stays LOADING.
C36_RefusedLeavesNoTrace ==
    [][RefusedStep =>
          /\ tree' = tree
          /\ nsec' = nsec
          /\ nsec3' = nsec3
          /\ "LOADING" \in attributes']_vars
(***************************************************************************)
(* The NSEC marks of the main tree and the auxiliary NSEC tree.            *)
(***************************************************************************)
\* C37: while the loader runs, a node of the main tree has nsec = HAS_NSEC
\* exactly when the auxiliary NSEC tree holds its name.
C37_HasNsecMirrored ==
    "LOADING" \in attributes =>
        \A n \in DOMAIN tree : (tree[n].nsec = "HAS_NSEC") <=> (n \in nsec)
(***************************************************************************)
(* The header scan of zone_find and the order of the next chain.           *)
(***************************************************************************)
\* The lookup and the scan of the ancestors of a zone_find call.
LookupOf(call) ==
    dns_qp_lookup(IF "FORCENSEC3" \in call.args.options
                  THEN DOMAIN nsec3 ELSE DOMAIN tree, call.args.name)

ScanOf(call) ==
    AncestorScan([NewSearch(call.version, call.args.options, LookupOf(call))
                     EXCEPT !.close_version = call.answer.close_version],
                 1,
                 IF LookupOf(call).result = "SUCCESS"
                 THEN Len(LookupOf(call).chain) - 1
                 ELSE Len(LookupOf(call).chain))

\* The call found a node of its very name and no zone cut above it.
ExactMatch(call) ==
    /\ call.op = "zone_find"
    /\ LookupOf(call).result = "SUCCESS"
    /\ ~ScanOf(call).forced

\* The next chain data with its stacks in the order p.
Reordered(data, p) == [i \in 1..Len(data) |-> data[p[i]]]

\* What the call answers when the next chain of its node is data.
AnswerOn(call, data) ==
    FoundIn(ScanOf(call).search, call.args.name, call.args.type,
            call.args.name, LookupOf(call).foundname, FALSE, data)

SameAnswer(a, b) ==
    /\ a.result = b.result
    /\ a.rdataset = b.rdataset
    /\ a.sigrdataset = b.sigrdataset

\* C38: for a node of the very name asked for, the result code and the
\* rdatasets zone_find binds are the same for every order of the stacks on
\* the next chain of the node.
C38_AnswerWhateverTheOrder ==
    ExactMatch(lastcall) =>
        LET data == SearchTree(ScanOf(lastcall).search)[lastcall.args.name].data
        IN  /\ SameAnswer(AnswerOn(lastcall, data), lastcall.answer)
            /\ \A p \in Permutations(1..Len(data)) :
                  SameAnswer(AnswerOn(lastcall, Reordered(data, p)),
                             lastcall.answer)
(***************************************************************************)
(* The assertions of the resign heap.                                      *)
(***************************************************************************)
\* The headers that setsigningtime and dns__qpzone_resigndelete are called
\* for.
SigningHeaders ==
    {HeaderOf(tree, ref) :
        ref \in {r \in workload.signing :
                    /\ r.name \in DOMAIN tree
                    /\ StackIndex(tree[r.name].data, r.type) # 0}}

\* C39: in every state reached by calls of dns__qpzone_resigndelete and
\* setsigningtime no INSIST of the resign heap has failed: a header in a
\* heap has RESIGN set, a header that setsigningtime inserts is in no heap
\* and on no resigned_list, and no header is in a heap and on a
\* resigned_list at once.
C39_ResignAssertionsHold ==
    /\ "ABORTED" \notin attributes
    /\ \A h \in SigningHeaders :
          /\ h.heap_index # 0 => RESIGN(h)
          /\ ~(h.heap_index # 0 /\ ISC_LINK_LINKED(h))
(***************************************************************************)
(* The length of the chain after the scan of the ancestors.                *)
(***************************************************************************)
\* C40: when the scan of the ancestors stops at a zone cut, the length it
\* stores in search.chain.len is at least 0 and at most the length the
\* chain had, with no wrap of the unsigned subtraction.
C40_ChainLenInRange ==
    (lastcall.op = "zone_find" /\ ScanOf(lastcall).forced) =>
        /\ lastcall.answer.chainlen.hi = 0
        /\ lastcall.answer.chainlen.lo <= Len(LookupOf(lastcall).chain)
====
